---- MODULE Spec2Model ----
(***************************************************************************)
(* Tetris Max web port: the game engine (game.ts / game.constants.ts) as a *)
(* state machine.  The engine's single mutable `state` object is the       *)
(* record-valued variable `state`; every engine function is an operator    *)
(* from a state record to the state record it leaves behind.               *)
(*                                                                         *)
(* Time is counted in thirds of a millisecond, so that the tick length     *)
(* 1000/60 ms is the integer 50; the frames explored last one or two      *)
(* ticks.  Floating-point rounding of the accumulator is not modelled.     *)
(***************************************************************************)
EXTENDS Integers, Sequences, FiniteSets, TLC

VARIABLES
    state,      \* the engine's InternalGameState
    op,         \* the last call made on the engine: its name and arguments
    hist,       \* the engine states that call went through, first to last
    hd,         \* what the last accepted hard-drop key saw
    owed,       \* event tokens pushed: since the last getEvents() call,
                \* and by the last tick() call
    returned,   \* what the last getEvents() call returned
    calls,      \* how many start / key calls were made (bounded)
    rot,        \* the rotation harness: a grid under repeated rotation
    host,       \* main.ts: the session flags and the frame clock
    frames,     \* the previous tick() call, and this one merged with it
    highScores, \* the high-score table, in memory and as stored
    press,      \* the last left or right key press, while nothing follows it
    heap,       \* the piece objects, grid arrays and row arrays, by address
    prompt      \* the name prompt of a finished game: scheduled, open or done

vars == <<state, op, hist, hd, owed, returned, calls, rot,
          host, frames, highScores, press, heap, prompt>>

\* What the engine's own actions leave alone.
outside == <<host, frames, highScores, press, heap, prompt>>

(***************************************************************************)
(* Program constants (game.constants.ts)                                   *)
(***************************************************************************)
BOARD_COLS == 10
BOARD_ROWS == 20
ZIP_DELAY_TICKS == 10
ZIP_RATE_TICKS == 1
FREEFALL_RATE_TICKS == 2
SLOW_MOVE_TICKS == 15
CLEAR_ANIM_TICKS == 10
TICK_MS == 50
SCORE_1_LINE == 100
SCORE_2_LINES == 300
SCORE_3_LINES == 600
SCORE_4_LINES == 1000
SCORE_SAME_COLOR_BONUS == 2500
SCORE_CLEAR_BOARD_BONUS == 10000
PIECE_COUNT == 7
SPAWN_HEIGHT == 21
SPAWN_OFFSET == 3

LEVEL_SPEED ==
    [l \in 1..10 |-> CASE l = 1 -> 30 [] l = 2 -> 20 [] l = 3 -> 15
                       [] l = 4 -> 12 [] l = 5 -> 10 [] l = 6 -> 8
                       [] l = 7 -> 7  [] l = 8 -> 6  [] l = 9 -> 5
                       [] OTHER -> 4]

LEVEL_THRESHOLD ==
    [l \in 1..10 |-> IF l = 10 THEN 32000 ELSE 10 * l]

NULL == [null |-> TRUE]

Cols == 0..(BOARD_COLS - 1)
Rows == 0..(BOARD_ROWS - 1)
Levels == 1..10

(***************************************************************************)
(* Pieces                                                                  *)
(***************************************************************************)
\* A 4x4 grid written as the source writes it: four columns of four cells,
\* indexed from 0.
Grid(c0, c1, c2, c3) ==
    LET cols == <<c0, c1, c2, c3>>
    IN  [i \in 0..3 |-> [j \in 0..3 |-> cols[i + 1][j + 1]]]

TemplateGrid(color) ==
    CASE color = 0 -> Grid(<<0,0,0,0>>, <<0,1,1,0>>, <<0,1,1,0>>, <<0,0,0,0>>)
      [] color = 1 -> Grid(<<0,0,0,0>>, <<2,2,2,2>>, <<0,0,0,0>>, <<0,0,0,0>>)
      [] color = 2 -> Grid(<<0,0,0,0>>, <<0,0,0,0>>, <<3,3,3,0>>, <<0,0,3,0>>)
      [] color = 3 -> Grid(<<0,0,0,0>>, <<0,0,4,0>>, <<4,4,4,0>>, <<0,0,0,0>>)
      [] color = 4 -> Grid(<<0,0,0,0>>, <<0,5,5,0>>, <<5,5,0,0>>, <<0,0,0,0>>)
      [] color = 5 -> Grid(<<0,0,0,0>>, <<6,6,0,0>>, <<0,6,6,0>>, <<0,0,0,0>>)
      [] OTHER     -> Grid(<<0,0,0,0>>, <<0,7,0,0>>, <<0,7,7,0>>, <<0,7,0,0>>)

PIECE_LIST ==
    [color \in 0..(PIECE_COUNT - 1) |->
        [height |-> BOARD_ROWS + 4 - 3,
         offset |-> (BOARD_COLS \div 2) - 2,
         color  |-> color,
         grid   |-> TemplateGrid(color)]]

\* copyPiece builds a new object with a new grid: a value here.
copyPiece(src) ==
    [height |-> src.height, offset |-> src.offset,
     color |-> src.color, grid |-> src.grid]

\* grid[a] = v for a cell address a = <<i, j>>
SetCell(grid, a, v) == [grid EXCEPT ![a[1]][a[2]] = v]
GetCell(grid, a) == grid[a[1]][a[2]]

\* ttype = g[a]; g[a] = g[b]; g[b] = g[c]; g[c] = g[d]; g[d] = ttype
Cycle4(grid, a, b, c, d) ==
    LET ttype == GetCell(grid, a)
        g1 == SetCell(grid, a, GetCell(grid, b))
        g2 == SetCell(g1, b, GetCell(g1, c))
        g3 == SetCell(g2, c, GetCell(g2, d))
    IN  SetCell(g3, d, ttype)

\* rotateCw with the last assignment of its last cycle writing the wrong
\* cell.
rotateCwDroppedCell(color, grid) ==
    CASE color = 0 -> grid
      [] color = 1 ->
            Cycle4(Cycle4(Cycle4(grid, <<1,0>>, <<0,2>>, <<2,3>>, <<3,1>>),
                          <<2,0>>, <<0,1>>, <<1,3>>, <<3,2>>),
                   <<1,1>>, <<1,2>>, <<2,2>>, <<2,2>>)
      [] color \in 2..6 ->
            Cycle4(Cycle4(grid, <<1,0>>, <<1,2>>, <<3,2>>, <<3,0>>),
                   <<2,0>>, <<1,1>>, <<2,2>>, <<2,2>>)
      [] OTHER -> grid

rotateCw(color, grid) ==
    CASE color = 0 -> grid
      [] color = 1 ->
            LET g1 == Cycle4(grid, <<1,0>>, <<0,2>>, <<2,3>>, <<3,1>>)
                g2 == Cycle4(g1, <<2,0>>, <<0,1>>, <<1,3>>, <<3,2>>)
            IN  Cycle4(g2, <<1,1>>, <<1,2>>, <<2,2>>, <<2,1>>)
      [] color \in 2..6 ->
            LET g1 == Cycle4(grid, <<1,0>>, <<1,2>>, <<3,2>>, <<3,0>>)
            IN  Cycle4(g1, <<2,0>>, <<1,1>>, <<2,2>>, <<3,1>>)
      [] OTHER -> grid

rotateCCw(color, grid) ==
    rotateCw(color, rotateCw(color, rotateCw(color, grid)))

\* game.js, the earlier single-file engine: RotateCCw written out as its
\* own swap cycles.
LegacyRotateCCw(color, grid) ==
    CASE color = 0 -> grid
      [] color = 1 ->
            LET g1 == Cycle4(grid, <<3,1>>, <<2,3>>, <<0,2>>, <<1,0>>)
                g2 == Cycle4(g1, <<2,0>>, <<3,2>>, <<1,3>>, <<0,1>>)
            IN  Cycle4(g2, <<1,1>>, <<2,1>>, <<2,2>>, <<1,2>>)
      [] color \in 2..6 ->
            LET g1 == Cycle4(grid, <<1,0>>, <<3,0>>, <<3,2>>, <<1,2>>)
            IN  Cycle4(g1, <<2,0>>, <<3,1>>, <<2,2>>, <<1,1>>)
      [] OTHER -> grid

(***************************************************************************)
(* Piece storage.  A piece is an object that refers to a grid array, which  *)
(* refers to four row arrays; the templates of PIECE_LIST are such objects *)
(* too.  `heap` holds them by address, so that two pieces that refer to    *)
(* one array can be told from two pieces with equal arrays.  The operators *)
(* below are startNextPiece, copyPiece and the rotation of the key handler *)
(* as they act on the objects.                                             *)
(***************************************************************************)
\* PIECE_LIST[color]: the piece object and its grid array are at address
\* color + 1, its row arrays at 4 * color + 1 .. 4 * color + 4.
TemplateAddr(color) == color + 1
TemplateRows == 1..(4 * PIECE_COUNT)

NoHeap ==
    [pieces  |-> [a \in 1..PIECE_COUNT |->
                    [height |-> BOARD_ROWS + 4 - 3,
                     offset |-> (BOARD_COLS \div 2) - 2,
                     color  |-> a - 1,
                     grid   |-> a]],
     grids   |-> [a \in 1..PIECE_COUNT |->
                    [i \in 0..3 |-> 4 * (a - 1) + i + 1]],
     rows    |-> [a \in TemplateRows |->
                    TemplateGrid((a - 1) \div 4)[(a - 1) % 4]],
     current |-> 0, next |-> 0,
     allocated |-> 0,
     shown |-> -1, drawn |-> -1, turned |-> {}, op |-> "init"]

\* The addresses the next copyPiece call gets: of the piece object and its
\* grid array, and of row array i.
NewPiece(h) == PIECE_COUNT + h.allocated + 1
NewRow(h, i) == 4 * PIECE_COUNT + 4 * h.allocated + i + 1

\* f with the value v at address a, which may be a new address.
Store(f, a, v) == [b \in DOMAIN f \cup {a} |-> IF b = a THEN v ELSE f[b]]

\* The grid of the piece at address p, read through its arrays.
HeapGrid(h, p) ==
    [i \in 0..3 |-> h.rows[h.grids[h.pieces[p].grid][i]]]

\* A new piece object that refers to the grid array of src.
copyPieceShared(h, src) ==
    [h EXCEPT !.pieces = Store(h.pieces, NewPiece(h), h.pieces[src]),
              !.allocated = @ + 1]

\* dest = {height, offset, color, grid: []}; dest.grid[i] = [...src.grid[i]]
copyPieceAt(h, src) ==
    [h EXCEPT
        !.pieces = Store(h.pieces, NewPiece(h),
                         [h.pieces[src] EXCEPT !.grid = NewPiece(h)]),
        !.grids = Store(h.grids, NewPiece(h),
                        [i \in 0..3 |-> NewRow(h, i)]),
        !.rows = [a \in DOMAIN h.rows \cup {NewRow(h, i) : i \in 0..3} |->
                    IF a \in DOMAIN h.rows THEN h.rows[a]
                    ELSE h.rows[h.grids[h.pieces[src].grid]
                                    [a - NewRow(h, 0)]]],
        !.allocated = @ + 1]

\* state.nextPiece = copyPiece(PIECE_LIST[r])
drawNextAt(h, r) ==
    [copyPieceAt(h, TemplateAddr(r)) EXCEPT !.next = NewPiece(h)]

\* startNextPiece on the objects: currentPiece = nextPiece is the same
\* object, whose height and offset are then assigned.  The legality test
\* of the spawn reads the piece and writes none of it.
startNextPieceAt(h, r) ==
    LET h1 == IF h.next = 0 THEN drawNextAt(h, r) ELSE h
        h2 == [h1 EXCEPT
                 !.current = h1.next,
                 !.pieces[h1.next].height = BOARD_ROWS + 4 - 3,
                 !.pieces[h1.next].offset = (BOARD_COLS \div 2) - 2]
    IN  drawNextAt(h2, r)

\* start(): makeInitialGameState() leaves both pieces null; the templates
\* are module constants and are not made anew.
startAt(h, r1, r2) ==
    startNextPieceAt(drawNextAt([h EXCEPT !.current = 0, !.next = 0], r1),
                     r2)

\* rotateCw(piece.color, piece.grid) / rotateCCw(...) of the key handler:
\* every cell is assigned through the grid array and its row arrays.
rotateAt(h, clockwise) ==
    LET p == h.pieces[h.current]
        g == IF clockwise THEN rotateCw(p.color, HeapGrid(h, h.current))
             ELSE rotateCCw(p.color, HeapGrid(h, h.current))
    IN  [h EXCEPT !.rows =
            [a \in DOMAIN h.rows |->
                IF \E i \in 0..3 : h.grids[p.grid][i] = a
                THEN g[CHOOSE i \in 0..3 : h.grids[p.grid][i] = a]
                ELSE h.rows[a]]]

\* currentPiece.offset += dOffset; currentPiece.height += dHeight
moveAt(h, dOffset, dHeight) ==
    [h EXCEPT !.pieces[h.current].offset = @ + dOffset,
              !.pieces[h.current].height = @ + dHeight]

\* The objects no reference leads to are gone.
collect(h) ==
    LET live == (1..PIECE_COUNT) \cup ({h.current, h.next} \ {0})
        liveGrids == {h.pieces[a].grid : a \in live}
        liveRows == {h.grids[g][i] : g \in liveGrids, i \in 0..3}
    IN  [h EXCEPT !.pieces = [a \in live |-> h.pieces[a]],
                  !.grids = [g \in liveGrids |-> h.grids[g]],
                  !.rows = [a \in liveRows |-> h.rows[a]]]

(***************************************************************************)
(* Collision and placement                                                 *)
(***************************************************************************)
Occupied(piece) ==
    {a \in (0..3) \X (0..3) : piece.grid[a[1]][a[2]] # 0}

\* Only the walls and the floor are tested, not the cells of the board.
inLegalPosWallsOnly(s, piece) ==
    \A a \in Occupied(piece) :
        /\ ~(a[1] + piece.offset >= BOARD_COLS \/ a[1] + piece.offset < 0)
        /\ ~(piece.height - a[2] < 0)

inLegalPos(s, piece) ==
    \A a \in Occupied(piece) :
        LET i == a[1]
            j == a[2]
        IN  /\ ~(i + piece.offset >= BOARD_COLS \/ i + piece.offset < 0)
            /\ ~(piece.height - j < 0)
            /\ (piece.height - j < BOARD_ROWS
                    => s.board[i + piece.offset][piece.height - j] = 0)

\* No test of the row: every cell of the piece is written.
PlacedCellsUnguarded(piece) == Occupied(piece)

\* The cells placePiece writes: those of the piece below row BOARD_ROWS.
PlacedCells(piece) ==
    {a \in Occupied(piece) : piece.height - a[2] < BOARD_ROWS}

placePieceBoard(s, piece) ==
    [c \in Cols |-> [r \in Rows |->
        IF \E a \in PlacedCells(piece) :
                a[1] + piece.offset = c /\ piece.height - a[2] = r
        THEN piece.grid[c - piece.offset][piece.height - r]
        ELSE s.board[c][r]]]

\* The board positions <<column, row>> placePiece assigns to.
placePieceTargets(piece) ==
    {<<a[1] + piece.offset, piece.height - a[2]>> : a \in PlacedCells(piece)}

placePieceOk(piece) ==
    \A a \in Occupied(piece) : piece.height - a[2] < BOARD_ROWS

\* placePiece writes the cells and reports whether none lay above the board.
placePiece(s, piece) ==
    [state |-> [s EXCEPT !.board = placePieceBoard(s, piece),
                         !.placed = @ + 1,
                         !.wrote = placePieceTargets(piece)],
     ok    |-> placePieceOk(piece)]

(***************************************************************************)
(* Session state                                                           *)
(***************************************************************************)
EmptyBoard == [i \in Cols |-> [j \in Rows |-> 0]]

\* `placed` and `spawned` are not fields of the program: they count the
\* calls of placePiece and of startNextPiece in the session, so that a step
\* that locks or spawns a piece can be told from one that does not.
\* `wrote` is not one either: the positions the last placePiece call
\* assigned to.  Nor is `startLevel`: the level start() was called with.
makeInitialGameState ==
    [currentScore |-> 0, linesCleared |-> 0, currentLevel |-> 1,
     isGameOver |-> FALSE, events |-> <<>>, board |-> EmptyBoard,
     currentPiece |-> NULL, nextPiece |-> NULL,
     lastDropTime |-> 0, lastLeftTime |-> 0, lastRightTime |-> 0,
     zippingL |-> FALSE, zippingR |-> FALSE, zipNow |-> FALSE,
     inFreefall |-> FALSE, movePieceSlowly |-> FALSE,
     downKeyActive |-> FALSE, pushKeyActive |-> FALSE,
     rowsToClear |-> <<>>, clearAnimStartTime |-> 0, clearAnimData |-> NULL,
     isHardDropping |-> FALSE, hardDropStartTime |-> 0,
     pendingDropScore |-> 0, accumulator |-> 0, count |-> 0,
     placed |-> 0, spawned |-> 0, wrote |-> {}, startLevel |-> 1]

\* The zip flags left as they are.
resetMovementFlagsKeepZip(s) ==
    [s EXCEPT !.downKeyActive = FALSE, !.pushKeyActive = FALSE,
              !.inFreefall = FALSE, !.movePieceSlowly = FALSE,
              !.isHardDropping = FALSE]

resetMovementFlags(s) ==
    [s EXCEPT !.downKeyActive = FALSE, !.pushKeyActive = FALSE,
              !.inFreefall = FALSE, !.zippingL = FALSE, !.zippingR = FALSE,
              !.zipNow = FALSE, !.movePieceSlowly = FALSE,
              !.isHardDropping = FALSE]

\* if (!state.nextPiece) state.nextPiece = copyPiece(PIECE_LIST[r])
fillNextPiece(s, r) ==
    IF s.nextPiece = NULL
    THEN [s EXCEPT !.nextPiece = copyPiece(PIECE_LIST[r])]
    ELSE s

\* The next piece becomes the current one at the spawn position and a new
\* next piece is drawn.
promoteNextPiece(s, r) ==
    [s EXCEPT !.currentPiece =
                  [s.nextPiece EXCEPT !.height = BOARD_ROWS + 4 - 3,
                                      !.offset = (BOARD_COLS \div 2) - 2],
              !.nextPiece = copyPiece(PIECE_LIST[r]),
              !.spawned = @ + 1]

\* The spawn not checked.
checkSpawnUnchecked(s) ==
    [s EXCEPT !.lastDropTime = s.count]

\* if (!inLegalPos(...)) { isGameOver = true; return } lastDropTime = count
checkSpawn(s) ==
    IF ~inLegalPos(s, s.currentPiece)
    THEN [s EXCEPT !.isGameOver = TRUE]
    ELSE [s EXCEPT !.lastDropTime = s.count]

\* r is the template Math.floor(Math.random() * 7) picks.
startNextPiece(s, r) ==
    checkSpawn(promoteNextPiece(fillNextPiece(s, r), r))

(***************************************************************************)
(* Row-clear pipeline                                                      *)
(***************************************************************************)
\* The inner loop of reduceRows over the columns of row j, from column i on.
RECURSIVE ScanRow(_, _, _, _, _)
ScanRow(board, j, i, firstColor, sameColor) ==
    IF i >= BOARD_COLS THEN [rowFull |-> TRUE, sameColor |-> sameColor]
    ELSE IF board[i][j] = 0 THEN [rowFull |-> FALSE, sameColor |-> sameColor]
    ELSE IF firstColor = 0
         THEN ScanRow(board, j, i + 1, board[i][j], sameColor)
         ELSE ScanRow(board, j, i + 1, firstColor,
                      sameColor /\ board[i][j] = firstColor)

\* The scan left at the first full row it finds.
RECURSIVE FindFullRowsFirstOnly(_, _, _)
FindFullRowsFirstOnly(board, j, acc) ==
    IF j >= BOARD_ROWS THEN acc
    ELSE LET scan == ScanRow(board, j, 0, 0, TRUE)
         IN  IF scan.rowFull
             THEN [rows  |-> Append(acc.rows, j),
                   bonus |-> acc.bonus \/ scan.sameColor]
             ELSE FindFullRowsFirstOnly(board, j + 1, acc)

\* The outer loop of reduceRows, from row j on.
RECURSIVE FindFullRows(_, _, _)
FindFullRows(board, j, acc) ==
    IF j >= BOARD_ROWS THEN acc
    ELSE LET scan == ScanRow(board, j, 0, 0, TRUE)
         IN  IF scan.rowFull
             THEN FindFullRows(board, j + 1,
                      [rows  |-> Append(acc.rows, j),
                       bonus |-> acc.bonus \/ scan.sameColor])
             ELSE FindFullRows(board, j + 1, acc)

ClearEvent(dropped) ==
    CASE dropped = 1 -> <<"clear1">>
      [] dropped = 2 -> <<"clear2">>
      [] dropped = 3 -> <<"clear3">>
      [] dropped = 4 -> <<"clear4">>
      [] OTHER -> <<>>

\* The `if (dropped > 0) {...} else {...}` of reduceRows, given the rows
\* the scan found.
recordRows(s, found, wasDropOrFreefall, r) ==
    IF Len(found.rows) > 0
    THEN [s EXCEPT !.rowsToClear = found.rows,
                   !.clearAnimStartTime = s.count,
                   !.clearAnimData =
                       [dropped |-> Len(found.rows), bonus |-> found.bonus,
                        wasDropOrFreefall |-> wasDropOrFreefall],
                   !.events = @ \o ClearEvent(Len(found.rows))]
    ELSE startNextPiece(resetMovementFlags(s), r)

reduceRows(s, wasDropOrFreefall, r) ==
    recordRows([s EXCEPT !.events =
                   Append(@, IF wasDropOrFreefall THEN "drop" ELSE "stick")],
               FindFullRows(s.board, 0, [rows |-> <<>>, bonus |-> FALSE]),
               wasDropOrFreefall, r)

\* The rows left in the order they were recorded in, lowest first.
SortNone(seq) == seq

\* rowsToClear.sort((a, b) => b - a)
RECURSIVE SortDesc(_)
SortDesc(seq) ==
    IF Len(seq) = 0 THEN <<>>
    ELSE LET k == CHOOSE k \in 1..Len(seq) :
                      \A m \in 1..Len(seq) : seq[m] <= seq[k]
             rest == [m \in 1..(Len(seq) - 1) |->
                          IF m < k THEN seq[m] ELSE seq[m + 1]]
         IN  <<seq[k]>> \o SortDesc(rest)

\* Shift all rows above `row` down by one and clear the top row.
RemoveRow(board, row) ==
    [i \in Cols |-> [j \in Rows |->
        IF j < row THEN board[i][j]
        ELSE IF j < BOARD_ROWS - 1 THEN board[i][j + 1]
        ELSE 0]]

RECURSIVE RemoveRows(_, _)
RemoveRows(board, rows) ==
    IF Len(rows) = 0 THEN board
    ELSE RemoveRows(RemoveRow(board, Head(rows)), Tail(rows))

LineScore(dropped) ==
    CASE dropped = 1 -> SCORE_1_LINE
      [] dropped = 2 -> SCORE_2_LINES
      [] dropped = 3 -> SCORE_3_LINES
      [] dropped = 4 -> SCORE_4_LINES
      [] OTHER -> 0

BoardEmpty(board) == \A i \in Cols : \A j \in Rows : board[i][j] = 0

\* The threshold has to be passed, not reached.
LevelUpPast(s) ==
    /\ s.linesCleared > LEVEL_THRESHOLD[s.currentLevel]
    /\ s.currentLevel < 10

LevelUp(s) ==
    /\ s.linesCleared >= LEVEL_THRESHOLD[s.currentLevel]
    /\ s.currentLevel < 10

\* The line award multiplied by the level.
awardLinesByLevel(s, dropped) ==
    [s EXCEPT !.currentScore = @ + LineScore(dropped) * s.currentLevel]

\* if (dropped === 1) score += SCORE_1_LINE; else if ... SCORE_4_LINES
awardLines(s, dropped) ==
    [s EXCEPT !.currentScore = @ + LineScore(dropped)]

\* The same-colour bonus given only when the board-clear bonus is not.
awardSameColorElse(s, bonus, tbonus) ==
    IF bonus /\ ~tbonus
    THEN [s EXCEPT !.currentScore = @ + SCORE_SAME_COLOR_BONUS,
                   !.events = Append(@, "smallBonus")]
    ELSE s

\* if (bonus) { score += SCORE_SAME_COLOR_BONUS; if (!tbonus) push(...) }
awardSameColor(s, bonus, tbonus) ==
    IF bonus
    THEN [s EXCEPT !.currentScore = @ + SCORE_SAME_COLOR_BONUS,
                   !.events = IF ~tbonus THEN Append(@, "smallBonus") ELSE @]
    ELSE s

\* The resolution counted as one line, however many rows it removes.
compactRowsCountOne(s, sorted, dropped) ==
    [s EXCEPT !.rowsToClear = sorted,
              !.board = RemoveRows(@, sorted),
              !.linesCleared = @ + 1]

\* rowsToClear.sort(...); each recorded row is removed, highest first;
\* linesCleared += dropped
compactRows(s, sorted, dropped) ==
    [s EXCEPT !.rowsToClear = sorted,
              !.board = RemoveRows(@, sorted),
              !.linesCleared = @ + dropped]

\* if (tbonus) { score += SCORE_CLEAR_BOARD_BONUS; push("bigBonus") }
awardClearBoard(s, tbonus) ==
    IF tbonus
    THEN [s EXCEPT !.currentScore = @ + SCORE_CLEAR_BOARD_BONUS,
                   !.events = Append(@, "bigBonus")]
    ELSE s

\* A level for every ten lines, whatever level the session is at.
checkLevelUpEveryTen(s, bonus, tbonus) ==
    IF s.linesCleared >= 10 /\ s.currentLevel < 10
    THEN [s EXCEPT !.currentLevel = @ + 1,
                   !.events = IF ~bonus /\ ~tbonus
                              THEN Append(@, "newLevel") ELSE @]
    ELSE s

\* The level event pushed whatever bonus the resolution gave.
checkLevelUpLoud(s, bonus, tbonus) ==
    IF LevelUp(s)
    THEN [s EXCEPT !.currentLevel = @ + 1,
                   !.events = Append(@, "newLevel")]
    ELSE s

\* if (lines >= threshold && level < 10) { level++; ... push("newLevel") }
checkLevelUp(s, bonus, tbonus) ==
    IF LevelUp(s)
    THEN [s EXCEPT !.currentLevel = @ + 1,
                   !.events = IF ~bonus /\ ~tbonus
                              THEN Append(@, "newLevel") ELSE @]
    ELSE s

\* rowsToClear = []; clearAnimData = null; resetMovementFlags();
\* startNextPiece()
endRowClearing(s, r) ==
    startNextPiece(
        resetMovementFlags([s EXCEPT !.rowsToClear = <<>>,
                                     !.clearAnimData = NULL]), r)

\* finishRowClearing from the board-empty test on: s has the rows removed.
finishCompacted(s, bonus, tbonus, r) ==
    endRowClearing(
        checkLevelUp(awardSameColor(awardClearBoard(s, tbonus), bonus, tbonus),
                     bonus, tbonus), r)

\* The board tested for being empty before the rows are removed.
finishAwardedTestFirst(s, sorted, dropped, bonus, r) ==
    finishCompacted(compactRows(s, sorted, dropped), bonus,
                    BoardEmpty(s.board), r)

\* finishRowClearing after the line award: the rows are removed and the
\* board is tested for being empty.
finishAwarded(s, sorted, dropped, bonus, r) ==
    finishCompacted(compactRows(s, sorted, dropped), bonus,
                    BoardEmpty(RemoveRows(s.board, sorted)), r)

finishRowClearing(s, r) ==
    IF s.clearAnimData = NULL THEN s
    ELSE finishAwarded(awardLines(s, s.clearAnimData.dropped),
                       SortDesc(s.rowsToClear), s.clearAnimData.dropped,
                       s.clearAnimData.bonus, r)

(***************************************************************************)
(* The per-tick piece logic                                                *)
(***************************************************************************)
\* A move that restarts the gravity and grace timer, as a lock delay that
\* every successful move renews would.
TryShiftRestarting(s, dx) ==
    LET moved == [s EXCEPT !.currentPiece.offset = @ + dx,
                           !.lastDropTime = s.count]
    IN  IF inLegalPos(moved, moved.currentPiece) THEN moved ELSE s

\* Move the current piece by dx columns; put it back if that is illegal.
TryShift(s, dx) ==
    LET moved == [s EXCEPT !.currentPiece.offset = @ + dx]
    IN  IF inLegalPos(moved, moved.currentPiece) THEN moved ELSE s

\* The grace forgotten: a resting piece is timed like a falling one, at
\* the freefall rate.
shouldDropNoGrace(s) ==
    s.count - s.lastDropTime >=
        (IF s.inFreefall \/ s.movePieceSlowly THEN FREEFALL_RATE_TICKS
         ELSE IF s.currentLevel = 10 /\ s.currentPiece.height % 2 = 0
              THEN LEVEL_SPEED[s.currentLevel] - 1
              ELSE LEVEL_SPEED[s.currentLevel])

\* Level 10 timed like the other levels, 4 ticks at every height.
shouldDropFlatTen(s) ==
    LET since == s.count - s.lastDropTime
    IN  IF s.inFreefall THEN since >= FREEFALL_RATE_TICKS
        ELSE IF s.movePieceSlowly THEN since >= SLOW_MOVE_TICKS
        ELSE since >= LEVEL_SPEED[s.currentLevel]

shouldDrop(s) ==
    LET since == s.count - s.lastDropTime
        levelSpeed == LEVEL_SPEED[s.currentLevel]
    IN  IF s.inFreefall THEN since >= FREEFALL_RATE_TICKS
        ELSE IF s.movePieceSlowly THEN since >= SLOW_MOVE_TICKS
        ELSE IF s.currentLevel = 10 /\ s.currentPiece.height % 2 = 0
             THEN since >= levelSpeed - 1
             ELSE since >= levelSpeed

\* Row detection run for a piece that reaches above the board as well.
lockPlacedReducing(placed, wasDropOrFreefall, r) ==
    [reduceRows(placed.state, wasDropOrFreefall, r)
        EXCEPT !.isGameOver = @ \/ ~placed.ok]

\* if (placePiece(piece)) reduceRows(...) else isGameOver = true,
\* as animateActivePiece and processHardDrop both have it.
lockPlaced(placed, wasDropOrFreefall, r) ==
    IF placed.ok
    THEN reduceRows(placed.state, wasDropOrFreefall, r)
    ELSE [placed.state EXCEPT !.isGameOver = TRUE]

\* movePieceSlowly = false; score += pendingDropScore; pendingDropScore = 0
\* and the lock, in the `if (movePieceSlowly || inFreefall)` branch.
dropLock(s, wasFreefall, r) ==
    lockPlaced(placePiece(s, s.currentPiece), wasFreefall, r)

\* Freefall gets the grace as well: only a piece already in grace locks.
dropBlockedGraceInFreefall(d2, r) ==
    IF d2.movePieceSlowly
    THEN dropLock([d2 EXCEPT !.movePieceSlowly = FALSE,
                             !.currentScore = @ + d2.pendingDropScore,
                             !.pendingDropScore = 0],
                  d2.inFreefall, r)
    ELSE [d2 EXCEPT !.movePieceSlowly = TRUE]

\* The descent was illegal: d2 has the piece back at its row.
dropBlocked(d2, r) ==
    IF d2.movePieceSlowly \/ d2.inFreefall
    THEN dropLock([d2 EXCEPT !.movePieceSlowly = FALSE,
                             !.currentScore = @ + d2.pendingDropScore,
                             !.pendingDropScore = 0],
                  d2.inFreefall, r)
    ELSE [d2 EXCEPT !.movePieceSlowly = TRUE]

\* d1 has the piece one row lower (and the freefall point counted).
dropResolve(d1, r) ==
    IF inLegalPos(d1, d1.currentPiece)
    THEN [d1 EXCEPT !.movePieceSlowly = FALSE]
    ELSE dropBlocked([d1 EXCEPT !.currentPiece.height = @ + 1], r)

\* The body of `if (shouldDrop)` in animateActivePiece.
dropStep(s, r) ==
    [dropResolve([s EXCEPT !.currentPiece.height = @ - 1,
                           !.pendingDropScore =
                               IF s.inFreefall THEN @ + 1 ELSE @], r)
        EXCEPT !.lastDropTime = s.count]

\* if (ticks - lastLeftTime >= ZIP_DELAY_TICKS && zippingL && !zipNow)
armZipLeft(s) ==
    IF /\ s.count - s.lastLeftTime >= ZIP_DELAY_TICKS
       /\ s.zippingL /\ ~s.zipNow
    THEN [s EXCEPT !.zipNow = TRUE] ELSE s

armZipRight(s) ==
    IF /\ s.count - s.lastRightTime >= ZIP_DELAY_TICKS
       /\ s.zippingR /\ ~s.zipNow
    THEN [s EXCEPT !.zipNow = TRUE] ELSE s

\* if (ticks - lastLeftTime >= ZIP_RATE_TICKS && zippingL && zipNow)
zipLeft(s) ==
    IF /\ s.count - s.lastLeftTime >= ZIP_RATE_TICKS
       /\ s.zippingL /\ s.zipNow
    THEN TryShift([s EXCEPT !.lastLeftTime = s.count], -1)
    ELSE s

zipRight(s) ==
    IF /\ s.count - s.lastRightTime >= ZIP_RATE_TICKS
       /\ s.zippingR /\ s.zipNow
    THEN TryShift([s EXCEPT !.lastRightTime = s.count], 1)
    ELSE s

\* The vertical part of animateActivePiece.
gravity(s, r) ==
    IF shouldDrop(s) THEN dropStep(s, r) ELSE s

\* A piece spawned by the tick that finds none.
animateActivePieceSpawning(s, r) ==
    IF s.currentPiece = NULL THEN startNextPiece(s, r)
    ELSE gravity(zipRight(zipLeft(armZipRight(armZipLeft(s)))), r)

animateActivePiece(s, r) ==
    IF s.currentPiece = NULL THEN s
    ELSE gravity(zipRight(zipLeft(armZipRight(armZipLeft(s)))), r)

\* The point counted for the illegal row is kept.
hardDropBackUpKeepPoint(h1) ==
    [h1 EXCEPT !.currentPiece.height = @ + 1,
               !.isHardDropping = FALSE]

\* pendingDropScore--; height++; isHardDropping = false
hardDropBackUp(h1) ==
    [h1 EXCEPT !.pendingDropScore = @ - 1,
               !.currentPiece.height = @ + 1,
               !.isHardDropping = FALSE]

\* The points are added to the score and stay pending.
hardDropCommitKeepPending(h2) ==
    [h2 EXCEPT !.currentScore = @ + h2.pendingDropScore]

\* score += pendingDropScore; pendingDropScore = 0
hardDropCommit(h2) ==
    [h2 EXCEPT !.currentScore = @ + h2.pendingDropScore,
               !.pendingDropScore = 0]

hardDropLock(h3, r) ==
    lockPlaced(placePiece(h3, h3.currentPiece), TRUE, r)

\* The `if (!inLegalPos(...))` block of processHardDrop: h1 is the state
\* with the piece one row too low and the point for that row counted.
hardDropLand(h1, r) ==
    [hardDropLock(hardDropCommit(hardDropBackUp(h1)), r)
        EXCEPT !.lastDropTime = h1.count]

\* The piece goes down two rows for one point.
hardDropStepTwoRows(s) ==
    [s EXCEPT !.hardDropStartTime = s.count,
              !.currentPiece.height = @ - 2,
              !.pendingDropScore = @ + 1]

\* The piece goes down a row and the row's point is counted.
hardDropStep(s) ==
    [s EXCEPT !.hardDropStartTime = s.count,
              !.currentPiece.height = @ - 1,
              !.pendingDropScore = @ + 1]

hardDropResolve(h1, r) ==
    IF inLegalPos(h1, h1.currentPiece) THEN h1 ELSE hardDropLand(h1, r)

processHardDrop(s, r) ==
    IF ~s.isHardDropping \/ s.currentPiece = NULL THEN s
    ELSE IF ~(s.count - s.hardDropStartTime >= 1) THEN s
    ELSE hardDropResolve(hardDropStep(s), r)

(***************************************************************************)
(* Key handlers                                                            *)
(***************************************************************************)
\* key.toLowerCase(), on the key names the browser delivers.
toLowerCase(key) ==
    CASE key = "K" -> "k"
      [] key = "ArrowUp" -> "arrowup"
      [] key = "ArrowLeft" -> "arrowleft"
      [] key = "ArrowRight" -> "arrowright"
      [] key = "ArrowDown" -> "arrowdown"
      [] OTHER -> key

\* The illegal rotation taken back by the same rotation once more.
undoRotationSameWay(s, clockwise) ==
    IF inLegalPos(s, s.currentPiece) THEN s
    ELSE [s EXCEPT !.currentPiece.grid =
                       IF clockwise THEN rotateCw(s.currentPiece.color, @)
                       ELSE rotateCCw(s.currentPiece.color, @)]

\* if (!inLegalPos(...)) rotate back with the opposite rotation
undoRotation(s, clockwise) ==
    IF inLegalPos(s, s.currentPiece) THEN s
    ELSE [s EXCEPT !.currentPiece.grid =
                       IF clockwise THEN rotateCCw(s.currentPiece.color, @)
                       ELSE rotateCw(s.currentPiece.color, @)]

\* Rotate, and rotate back with the opposite rotation if that is illegal.
TryRotate(s, clockwise) ==
    undoRotation([s EXCEPT !.currentPiece.grid =
                      IF clockwise THEN rotateCw(s.currentPiece.color, @)
                      ELSE rotateCCw(s.currentPiece.color, @)],
                 clockwise)

keyRotateCCw(s, key) ==
    IF key = "k" THEN TryRotate(s, FALSE) ELSE s

keyRotateCw(s, key) ==
    IF key = "i" \/ key = "arrowup" THEN TryRotate(s, TRUE) ELSE s

keyFreefall(s, key) ==
    IF key = "m" /\ ~s.pushKeyActive
    THEN [s EXCEPT !.inFreefall = TRUE, !.pushKeyActive = TRUE,
                   !.zippingR = FALSE, !.zippingL = FALSE, !.zipNow = FALSE]
    ELSE s

keyLeft(s, key) ==
    IF key = "j" \/ key = "arrowleft"
    THEN IF ~s.zippingL
         THEN TryShift([s EXCEPT !.zippingR = FALSE, !.zippingL = TRUE,
                                 !.lastLeftTime = s.count], -1)
         ELSE [s EXCEPT !.zippingR = FALSE]
    ELSE s

keyRight(s, key) ==
    IF key = "l" \/ key = "arrowright"
    THEN IF ~s.zippingR
         THEN TryShift([s EXCEPT !.zippingL = FALSE, !.zippingR = TRUE,
                                 !.lastRightTime = s.count], 1)
         ELSE [s EXCEPT !.zippingL = FALSE]
    ELSE s

\* The `if (state.currentPiece)` block of handleKeyDown.
pieceKeyDown(s, key) ==
    keyRight(keyLeft(keyFreefall(
        keyRotateCw(keyRotateCCw(s, key), key), key), key), key)

\* The hard-drop key, at the end of handleKeyDown.
keyHardDrop(s, key) ==
    IF /\ (key = " " \/ key = "arrowdown")
       /\ ~s.downKeyActive
       /\ ~s.isHardDropping
    THEN [s EXCEPT !.zippingR = FALSE, !.zippingL = FALSE,
                   !.downKeyActive = TRUE,
                   !.movePieceSlowly = FALSE,
                   !.isHardDropping = TRUE,
                   !.hardDropStartTime = s.count]
    ELSE s

\* Input blocked during a hard drop only, not while rows are flashing.
lowerKeyDownWhileClearing(s, key) ==
    IF s.isHardDropping THEN s
    ELSE keyHardDrop(IF s.currentPiece # NULL THEN pieceKeyDown(s, key)
                     ELSE s, key)

\* handleKeyDown once the key is in lower case.
lowerKeyDown(s, key) ==
    IF s.isHardDropping \/ Len(s.rowsToClear) # 0 THEN s
    ELSE keyHardDrop(IF s.currentPiece # NULL THEN pieceKeyDown(s, key)
                     ELSE s, key)

handleKeyDown(s, rawKey) == lowerKeyDown(s, toLowerCase(rawKey))

upLeft(s, key) ==
    IF key = "j" \/ key = "arrowleft"
    THEN [s EXCEPT !.zippingL = FALSE, !.zipNow = FALSE] ELSE s

upRight(s, key) ==
    IF key = "l" \/ key = "arrowright"
    THEN [s EXCEPT !.zippingR = FALSE, !.zipNow = FALSE] ELSE s

upFreefall(s, key) ==
    IF key = "m"
    THEN [s EXCEPT !.inFreefall = FALSE, !.pushKeyActive = FALSE] ELSE s

upHardDrop(s, key) ==
    IF key = " " \/ key = "arrowdown"
    THEN [s EXCEPT !.downKeyActive = FALSE] ELSE s

\* handleKeyUp once the key is in lower case.
lowerKeyUp(s, key) ==
    upHardDrop(upFreefall(upRight(upLeft(s, key), key), key), key)

handleKeyUp(s, rawKey) == lowerKeyUp(s, toLowerCase(rawKey))

(***************************************************************************)
(* start, tick, getEvents                                                  *)
(***************************************************************************)
\* r1 and r2 are the two random templates start() draws.
\* lastDropTime = tick.count; tick.accumulator = 0
startClock(s) ==
    [s EXCEPT !.lastDropTime = s.count, !.accumulator = 0]

\* The level asked for is not taken: the session starts at level 1.
startAtLevelOne(level, r1, r2) ==
    startClock(startNextPiece(
        [makeInitialGameState EXCEPT
             !.nextPiece = copyPiece(PIECE_LIST[r1])], r2))

start(level, r1, r2) ==
    startClock(startNextPiece(
        [makeInitialGameState EXCEPT
             !.currentLevel = level,
             !.startLevel = level,
             !.nextPiece = copyPiece(PIECE_LIST[r1])], r2))

\* The flash ended one tick early.
simulateTickShortFlash(s, r) ==
    IF Len(s.rowsToClear) # 0
    THEN IF s.count - s.clearAnimStartTime >= CLEAR_ANIM_TICKS - 1
         THEN finishRowClearing(s, r)
         ELSE s
    ELSE IF s.isHardDropping THEN processHardDrop(s, r)
    ELSE animateActivePiece(s, r)

\* The body of tick()'s while loop, after the counter and the accumulator
\* were advanced.
simulateTick(s, r) ==
    IF Len(s.rowsToClear) # 0
    THEN IF s.count - s.clearAnimStartTime >= CLEAR_ANIM_TICKS
         THEN finishRowClearing(s, r)
         ELSE s
    ELSE IF s.isHardDropping THEN processHardDrop(s, r)
    ELSE animateActivePiece(s, r)

\* One iteration of tick()'s while loop.
tickLoopBody(s, r) ==
    simulateTick([s EXCEPT !.count = @ + 1,
                           !.accumulator = @ - TICK_MS], r)

\* tick()'s while loop: the states it goes through, given those so far.
RECURSIVE tickLoop(_, _)
tickLoop(seq, r) ==
    LET s == seq[Len(seq)]
    IN  IF s.accumulator >= TICK_MS
        THEN tickLoop(Append(seq, tickLoopBody(s, r)), r)
        ELSE seq

\* tick(deltaTime): the state after the events were reset and the time was
\* added, followed by the state after each iteration of the loop.
\* The list of events not emptied.
tickBeginKeepEvents(s, deltaTime) ==
    [s EXCEPT !.accumulator = @ + deltaTime]

\* The time left over from the previous call forgotten.
tickBeginDropRemainder(s, deltaTime) ==
    [s EXCEPT !.events = <<>>, !.accumulator = deltaTime]

\* state.events = []; state.tick.accumulator += deltaTime
tickBegin(s, deltaTime) ==
    [s EXCEPT !.events = <<>>, !.accumulator = @ + deltaTime]

tickStates(s, deltaTime, r) ==
    tickLoop(<<tickBegin(s, deltaTime)>>, r)

tick(s, deltaTime, r) ==
    LET seq == tickStates(s, deltaTime, r)
    IN  seq[Len(seq)]

getEvents(s) == s.events

(***************************************************************************)
(* The host (main.ts): the session flags, the clock of the frames and the  *)
(* handlers that start, pause and resume a session.  Sound, sprites,       *)
(* drawing and the about popup (which pauses a running session the way the *)
(* high-score popup does) are left out.                                    *)
(***************************************************************************)
\* The closure variables of init(), before any handler has run.  The
\* fields from `now` on are not variables of the program: `now` is the
\* wall clock; `due` is the wall-clock time that went by with the session
\* running since the session was started or resumed or last ticked; `fed`
\* and `ran` are the deltaTime the last frame handed to tick() and the
\* value `due` had then; `atPause` is the engine's accumulator and tick
\* counter at the moment the session was paused; `slept` is the wall-clock
\* time the session has spent paused, `base` the engine's clock when the
\* session started, and `since` the wall clock then.
initialHost ==
    [isGameInProgress |-> FALSE, isGamePaused |-> FALSE,
     isShowingHighScores |-> FALSE, isShowingAbout |-> FALSE,
     isShowingWelcomeScreen |-> TRUE, lastFrameTime |-> 0,
     now |-> 0, due |-> 0, fed |-> 0, ran |-> 0, atPause |-> NULL,
     slept |-> 0, base |-> 0, since |-> 0]

\* isGamePaused = true
pauseGame(h) == [h EXCEPT !.isGamePaused = TRUE]

\* onStart, after game.start(currentLevel); now is performance.now().
onStart(h, now) ==
    [h EXCEPT !.isShowingHighScores = FALSE, !.isShowingAbout = FALSE,
              !.lastFrameTime = now, !.isGameInProgress = TRUE,
              !.isGamePaused = FALSE, !.isShowingWelcomeScreen = FALSE]

\* The session resumed with the frame clock left where the last frame set
\* it.
onPauseKeepFrameTime(h, now) ==
    IF ~h.isGameInProgress THEN h
    ELSE IF ~h.isGamePaused THEN pauseGame(h)
    ELSE [h EXCEPT !.isGamePaused = FALSE,
                   !.isShowingHighScores = FALSE, !.isShowingAbout = FALSE]

onPause(h, now) ==
    IF ~h.isGameInProgress THEN h
    ELSE IF ~h.isGamePaused THEN pauseGame(h)
    ELSE [h EXCEPT !.isGamePaused = FALSE,
                   !.isShowingHighScores = FALSE, !.isShowingAbout = FALSE,
                   !.lastFrameTime = now]

\* if (isGameInProgress && !isGamePaused) pauseGame()
pauseIfRunning(h) ==
    IF h.isGameInProgress /\ ~h.isGamePaused THEN pauseGame(h) ELSE h

onShowHighScores(h) ==
    IF h.isShowingHighScores THEN [h EXCEPT !.isShowingHighScores = FALSE]
    ELSE pauseIfRunning([h EXCEPT !.isShowingAbout = FALSE,
                                  !.isShowingHighScores = TRUE])

\* isGameInProgress = false; the name prompt it may open is EnterScore.
stopGame(h) == [h EXCEPT !.isGameInProgress = FALSE]

\* mainLoop's `if (isGameInProgress && !isGamePaused)`
frameTicks(h) == h.isGameInProgress /\ ~h.isGamePaused

\* const deltaTime = timestamp - lastFrameTime
frameDelta(h, timestamp) == timestamp - h.lastFrameTime

\* lastFrameTime = timestamp; ...; if (game.isGameOver()) stopGame()
frameDone(h, timestamp, isGameOver) ==
    IF isGameOver THEN stopGame([h EXCEPT !.lastFrameTime = timestamp])
    ELSE [h EXCEPT !.lastFrameTime = timestamp]

(***************************************************************************)
(* The high-score table (high-scores.ts).  The array is a function on its  *)
(* indices 0..9; an index outside it reads as undefined.                   *)
(***************************************************************************)
HIGH_SCORE_COUNT == 10

UNDEFINED == [undefined |-> TRUE]

ReadEntry(highScoreList, j) ==
    IF j \in DOMAIN highScoreList THEN highScoreList[j] ELSE UNDEFINED

\* highScores.findIndex(({ score }) => newScore >= score)
findIndex(highScoreList, newScore) ==
    IF \E i \in DOMAIN highScoreList : newScore >= highScoreList[i].score
    THEN CHOOSE i \in DOMAIN highScoreList :
            /\ newScore >= highScoreList[i].score
            /\ \A k \in DOMAIN highScoreList :
                    k < i => ~(newScore >= highScoreList[k].score)
    ELSE -1

isHighScore(highScoreList, newScore) ==
    /\ newScore > 0
    /\ findIndex(highScoreList, newScore) # -1

\* The entries moved down from the last but one: the last keeps its place.
shiftDownShort(highScoreList, index, newEntry) ==
    [j \in 0..(HIGH_SCORE_COUNT - 1) |->
        IF j = index THEN newEntry
        ELSE IF j > index /\ j < HIGH_SCORE_COUNT - 1
             THEN ReadEntry(highScoreList, j - 1)
        ELSE ReadEntry(highScoreList, j)]

\* for (j = HIGH_SCORE_COUNT - 1; j > index; j--) hs[j] = hs[j - 1];
\* hs[index] = newEntry.  With index = -1 the entry goes to the property
\* "-1" of the array, which is not an element of it.
shiftDown(highScoreList, index, newEntry) ==
    [j \in 0..(HIGH_SCORE_COUNT - 1) |->
        IF j = index THEN newEntry
        ELSE IF j > index THEN ReadEntry(highScoreList, j - 1)
        ELSE ReadEntry(highScoreList, j)]

\* newScore is {name, score, rows}; date is new Date().toISOString().
\* The new array and the index returned.
addHighScore(highScoreList, newScore, date) ==
    [table |-> shiftDown(highScoreList,
                         findIndex(highScoreList, newScore.score),
                         [name |-> newScore.name, score |-> newScore.score,
                          rows |-> newScore.rows, date |-> date]),
     index |-> findIndex(highScoreList, newScore.score)]

(***************************************************************************)
(* Bounds of the model                                                     *)
(***************************************************************************)
MaxTicks == 14      \* simulation ticks in one behaviour
MaxInputs == 1      \* key events and start() calls in one behaviour
InputWindow == 4    \* inputs arrive before this many ticks have run
MaxRnd == 1         \* Math.random() picks a template in 0..MaxRnd
MaxFall == 3        \* rows a piece in the air still has to fall

RndChoices == 0..(IF MaxRnd < PIECE_COUNT THEN MaxRnd ELSE PIECE_COUNT - 1)

\* deltaTime of a frame at 60 and at 30 frames per second.
Deltas == {TICK_MS, 2 * TICK_MS}

Keys == {"k", "i", "m", "j", "l", " ", "x"}

\* The levels start() is called with.
StartLevels == {1, 10}

(***************************************************************************)
(* Sessions in progress.  Filling a board from start() by every possible   *)
(* play is out of reach of exhaustive search, so besides the constructed   *)
(* engine the behaviours start from sessions that have been played for a   *)
(* while: a stack a game can build, the line piece on its way down or      *)
(* resting on the stack, and the level and line count such play shows.     *)
(***************************************************************************)
\* Rows 0..k-1 filled except column 4, where a vertical line piece fits.
\* mono: every filled cell is 2, the line piece's own value; otherwise the
\* cells alternate 3 and 5, except row 0 when monoRow0.  extra: one more
\* block on top of the filled rows.
WellBoard(k, mono, monoRow0, extra) ==
    [i \in Cols |-> [j \in Rows |->
        IF j < k /\ i # 4
        THEN IF mono \/ (monoRow0 /\ j = 0) THEN 2
             ELSE IF i % 2 = 0 THEN 3 ELSE 5
        ELSE IF extra /\ i = 0 /\ j = k THEN 7
        ELSE 0]]

\* Column 4 stacked with line pieces up to row h-1; with `cap`, a square on
\* top of it in columns 4 and 5.
TowerBoard(h, cap) ==
    [i \in Cols |-> [j \in Rows |->
        IF i = 4 /\ j < h THEN 2
        ELSE IF cap /\ i \in {4, 5} /\ j \in {h, h + 1} THEN 1
        ELSE 0]]

\* A session: the board, the line piece's height, the levels it is played
\* at, whether the piece is in its lock-delay grace, the ticks since its
\* last descent attempt, and the piece shown as next.
Session(board, height, levels, slow, since) ==
    [board |-> board, height |-> height, levels |-> levels,
     slow |-> slow, since |-> since, next |-> 0, freefall |-> FALSE,
     pending |-> 0]

\* The line piece resting in the well, its grace about to run out.
RestingSessions ==
    {Session(WellBoard(k, FALSE, FALSE, k = 4), 3, Levels, TRUE,
             SLOW_MOVE_TICKS - 1) : k \in 1..4}
    \cup {Session(WellBoard(4, FALSE, FALSE, FALSE), 3, {3, 9}, TRUE,
                  SLOW_MOVE_TICKS - 1)}
    \cup {Session(WellBoard(k, TRUE, FALSE, FALSE), 3, {3, 9}, TRUE,
                  SLOW_MOVE_TICKS - 1) : k \in 1..4}
    \cup {Session(WellBoard(4, TRUE, FALSE, TRUE), 3, {3, 9}, TRUE,
                  SLOW_MOVE_TICKS - 1)}
    \cup {Session(WellBoard(2, FALSE, TRUE, FALSE), 3, {3, 9}, TRUE,
                  SLOW_MOVE_TICKS - 1)}

\* The line piece in the air, or resting with some of its grace left; in
\* the last session the push key is down and has taken the piece down a
\* row.
FallingSessions ==
    {Session(WellBoard(2, FALSE, FALSE, FALSE), 3 + MaxFall, {10}, FALSE, 2),
     Session(TowerBoard(16, FALSE), 19 + 1, {10}, FALSE, 2),
     Session(TowerBoard(16, FALSE), 19, {1}, TRUE, SLOW_MOVE_TICKS - 4),
     Session(TowerBoard(16, TRUE), SPAWN_HEIGHT, {9}, FALSE, 3),
     [Session(WellBoard(2, FALSE, FALSE, FALSE), 3 + MaxFall, {5}, FALSE, 1)
        EXCEPT !.freefall = TRUE, !.pending = 1]}

\* The lines a session at level l has cleared: two short of the threshold.
LinesAt(l) == IF l = 10 THEN 98 ELSE LEVEL_THRESHOLD[l] - 2

SessionTick == 600

SessionState(sess, level, next) ==
    [makeInitialGameState EXCEPT
        !.board = sess.board,
        !.currentLevel = level,
        !.linesCleared = LinesAt(level),
        !.currentScore = SCORE_1_LINE * LinesAt(level),
        !.currentPiece = [PIECE_LIST[1] EXCEPT !.height = sess.height],
        !.nextPiece = copyPiece(PIECE_LIST[next]),
        !.movePieceSlowly = sess.slow,
        !.inFreefall = sess.freefall,
        !.pushKeyActive = sess.freefall,
        !.pendingDropScore = sess.pending,
        !.count = SessionTick,
        !.lastDropTime = SessionTick - sess.since]

\* Rows the current piece can go down before a step is illegal.
RECURSIVE DropDistance(_, _)
DropDistance(s, n) ==
    IF inLegalPos(s, [s.currentPiece EXCEPT !.height = @ - (n + 1)])
    THEN DropDistance(s, n + 1)
    ELSE n

NoCalls == [ticks |-> 0, inputs |-> 0]
NoOp == [name |-> "init", key |-> ""]
NoReturn == [tokens |-> <<>>, owed |-> <<>>, last |-> <<>>, calls |-> 0]
NoOwed == [all |-> <<>>, last |-> <<>>, calls |-> 0]
NoRot == [color |-> 0, orig |-> TemplateGrid(0), grid |-> TemplateGrid(0),
          n |-> 0, dir |-> "none"]
NoFrames == [before |-> NULL, delta |-> 0, r |-> 0,
             first |-> NULL, merged |-> NULL]

\* loadHighScores() with nothing stored: ten entries of score 0.
DefaultTable ==
    [j \in 0..(HIGH_SCORE_COUNT - 1) |->
        [name |-> "Anonymous", score |-> 0, rows |-> 0, date |-> 0]]

NoTable == [table |-> DefaultTable, stored |-> DefaultTable,
            lastHighScoreIndex |-> -1, entered |-> NULL, n |-> 0]

\* Outside the specification that is about them, the host, the frame
\* pairing and the high-score table stay as constructed.
Aside ==
    /\ host = initialHost
    /\ frames = NoFrames
    /\ press = NULL
    /\ heap = NoHeap
    /\ prompt = NULL
    /\ highScores = NoTable

Init ==
    /\ \/ state = makeInitialGameState
       \/ \E sess \in FallingSessions :
          \E level \in sess.levels :
            state = SessionState(sess, level, sess.next)
    /\ op = NoOp
    /\ hist = <<state>>
    /\ hd = NULL
    /\ owed = NoOwed
    /\ returned = NoReturn
    /\ calls = NoCalls
    /\ rot = NoRot
    /\ Aside

\* The tokens a tick() call pushed, read off the states it went through.
RECURSIVE Pushed(_, _)
Pushed(seq, i) ==
    IF i >= Len(seq) THEN <<>>
    ELSE SubSeq(seq[i + 1].events, Len(seq[i].events) + 1,
                Len(seq[i + 1].events)) \o Pushed(seq, i + 1)

\* No token waits to be fetched: none is owed and the list is empty.
NothingPending == Len(owed.all) = 0 /\ Len(state.events) = 0

InputAllowed ==
    /\ calls.inputs < MaxInputs
    /\ calls.ticks < InputWindow

Start(level, r1, r2) ==
    /\ InputAllowed
    /\ state' = start(level, r1, r2)
    /\ op' = [name |-> "start", key |-> "", level |-> level,
              over |-> state.isGameOver,
              dropping |-> state.isHardDropping,
              clearing |-> Len(state.rowsToClear) > 0]
    /\ hist' = <<state'>>
    /\ hd' = NULL
    /\ owed' = [owed EXCEPT !.last = <<>>,
                            !.calls = IF NothingPending THEN 0 ELSE @ + 1]
    /\ returned' = NoReturn
    /\ calls' = [calls EXCEPT !.inputs = @ + 1]
    /\ UNCHANGED <<rot, outside>>

Tick(deltaTime, r) ==
    /\ calls.ticks + ((state.accumulator + deltaTime) \div TICK_MS) <= MaxTicks
    /\ hist' = tickStates(state, deltaTime, r)
    /\ state' = hist'[Len(hist')]
    /\ op' = [name |-> "tick", key |-> ""]
    /\ owed' = [all |-> owed.all \o Pushed(hist', 1),
                last |-> Pushed(hist', 1),
                calls |-> IF NothingPending THEN 1 ELSE owed.calls + 1]
    /\ returned' = NoReturn
    /\ calls' = [calls EXCEPT !.ticks = @ + Len(hist') - 1]
    /\ UNCHANGED <<hd, rot, outside>>

KeyDown(key) ==
    /\ InputAllowed
    /\ state' = handleKeyDown(state, key)
    /\ op' = [name |-> "keydown", key |-> key]
    /\ hist' = <<state, state'>>
    /\ hd' = IF /\ ~state.isHardDropping /\ state'.isHardDropping
                /\ state'.currentPiece # NULL
             THEN [rows |-> DropDistance(state', 0),
                   pending |-> state'.pendingDropScore,
                   height |-> state'.currentPiece.height]
             ELSE hd
    /\ returned' = NoReturn
    /\ calls' = [calls EXCEPT !.inputs = @ + 1]
    /\ UNCHANGED <<owed, rot, outside>>

KeyUp(key) ==
    /\ InputAllowed
    /\ state' = handleKeyUp(state, key)
    /\ op' = [name |-> "keyup", key |-> key]
    /\ hist' = <<state, state'>>
    /\ returned' = NoReturn
    /\ calls' = [calls EXCEPT !.inputs = @ + 1]
    /\ UNCHANGED <<hd, owed, rot, outside>>

\* getEvents() returns the list and changes nothing; it is explored where a
\* token is there to return or is owed.
GetEvents ==
    /\ ~NothingPending
    /\ returned' = [tokens |-> getEvents(state), owed |-> owed.all,
                    last |-> owed.last, calls |-> owed.calls]
    /\ owed' = [owed EXCEPT !.all = <<>>, !.calls = 0]
    /\ op' = [name |-> "getEvents", key |-> ""]
    /\ hist' = <<state>>
    /\ UNCHANGED <<state, hd, calls, rot, outside>>

Next ==
    \/ \E level \in StartLevels, r1 \in RndChoices, r2 \in RndChoices :
            Start(level, r1, r2)
    \/ \E deltaTime \in Deltas, r \in RndChoices : Tick(deltaTime, r)
    \/ \E key \in Keys : KeyDown(key)
    \/ \E key \in Keys : KeyUp(key)
    \/ GetEvents

Spec == Init /\ [][Next]_vars

(***************************************************************************)
(* The row-clear pipeline at every level: sessions whose piece is about to *)
(* lock into the well, driven by frames alone.                             *)
(***************************************************************************)
ScoreInit ==
    /\ \E sess \in RestingSessions :
       \E level \in sess.levels :
            state = SessionState(sess, level, sess.next)
    /\ op = NoOp
    /\ hist = <<state>>
    /\ hd = NULL
    /\ owed = NoOwed
    /\ returned = NoReturn
    /\ calls = NoCalls
    /\ rot = NoRot
    /\ Aside

ScoreNext ==
    \/ \E deltaTime \in Deltas, r \in RndChoices : Tick(deltaTime, r)
    \/ GetEvents

ScoreSpec == ScoreInit /\ [][ScoreNext]_vars

(***************************************************************************)
(* Input at awkward moments: sessions in which a rotation has no room, a   *)
(* hard drop is on its way, rows are flashing, or the game is over.  Each  *)
(* is a state the engine reaches from a session in play.                   *)
(***************************************************************************)
\* The line piece at the bottom of the two-row well, with grace left.
InWell ==
    SessionState(Session(WellBoard(2, FALSE, FALSE, FALSE), 3, {5}, TRUE,
                         SLOW_MOVE_TICKS - 4), 5, 0)

\* The line piece in the air above the well.
AboveWell ==
    SessionState(Session(WellBoard(2, FALSE, FALSE, FALSE), 3 + MaxFall,
                         {5}, FALSE, 1), 5, 0)

\* An empty board with a piece of the given colour, turned `turns` times
\* clockwise, in the air at the given offset.
InAir(color, turns, offset) ==
    [AboveWell EXCEPT
        !.board = EmptyBoard,
        !.currentPiece =
            [PIECE_LIST[color] EXCEPT
                !.height = 10, !.offset = offset,
                !.grid = IF turns = 0 THEN @
                         ELSE IF turns = 1 THEN rotateCw(color, @)
                         ELSE rotateCCw(color, @)]]

\* The line piece about to lock into the two-row well.
AboutToLock ==
    SessionState(Session(WellBoard(2, FALSE, FALSE, FALSE), 3, {5}, TRUE,
                         SLOW_MOVE_TICKS - 1), 5, 0)

\* The line piece about to lock on the tower, where the next one has no
\* room.
AboutToEnd ==
    SessionState(Session(TowerBoard(16, FALSE), 19, {1}, TRUE,
                         SLOW_MOVE_TICKS - 1), 1, 1)

InputSessions ==
    {InWell,
     InAir(1, 0, -1),                       \* upright along the left wall
     InAir(6, 2, -2),                       \* the T piece along the left wall
     InAir(6, 1, 6),                        \* ... along the right wall
     handleKeyDown(AboveWell, " "),         \* a hard drop on its way
     tick(AboutToLock, TICK_MS, 0),         \* two rows flashing
     tick(AboutToEnd, TICK_MS, 0)}          \* game over

InputInit ==
    /\ state \in InputSessions
    /\ op = NoOp
    /\ hist = <<state>>
    /\ hd = IF state.isHardDropping
            THEN [rows |-> DropDistance(state, 0),
                  pending |-> state.pendingDropScore,
                  height |-> state.currentPiece.height]
            ELSE NULL
    /\ owed = NoOwed
    /\ returned = NoReturn
    /\ calls = NoCalls
    /\ rot = NoRot
    /\ Aside

InputNext ==
    \/ \E level \in Levels, r1 \in RndChoices, r2 \in RndChoices :
            Start(level, r1, r2)
    \/ \E deltaTime \in Deltas, r \in RndChoices : Tick(deltaTime, r)
    \/ \E key \in Keys : KeyDown(key)
    \/ \E key \in Keys : KeyUp(key)

InputSpec == InputInit /\ [][InputNext]_vars

(***************************************************************************)
(* The sideways keys: a piece in the air on an empty board, with no key    *)
(* held, with the left key held for a few ticks, or with the left key held *)
(* long enough to repeat; then one key event and frames.  `press` keeps    *)
(* the left or right key press and what it found.                          *)
(***************************************************************************)
\* The T piece in the air with the left key down for n ticks.
LeftHeld(offset, n) ==
    tick(handleKeyDown(InAir(6, 0, offset), "j"), n * TICK_MS, 0)

ZipSessions ==
    {InAir(6, 0, 3),
     InAir(6, 0, 6),                        \* along the right wall
     LeftHeld(4, 3),                        \* left held, not yet repeating
     LeftHeld(6, ZIP_DELAY_TICKS + 1)}      \* left held and repeating

ZipInit ==
    /\ state \in ZipSessions
    /\ op = NoOp
    /\ hist = <<state>>
    /\ hd = NULL
    /\ owed = NoOwed
    /\ returned = NoReturn
    /\ calls = NoCalls
    /\ rot = NoRot
    /\ Aside

\* What a left or right key press found and did.
Pressed(s, key, after) ==
    [key |-> key, at |-> s.count,
     moved |-> after.currentPiece.offset # s.currentPiece.offset,
     zipNow |-> s.zipNow,
     other |-> IF key = "j" THEN s.zippingR ELSE s.zippingL]

ZipKeyDown(key) ==
    /\ InputAllowed
    /\ state' = handleKeyDown(state, key)
    /\ op' = [name |-> "keydown", key |-> key]
    /\ hist' = <<state, state'>>
    /\ press' = IF key \in {"j", "l"} /\ state.currentPiece # NULL
                THEN Pressed(state, key, state')
                ELSE NULL
    /\ returned' = NoReturn
    /\ calls' = [calls EXCEPT !.inputs = @ + 1]
    /\ UNCHANGED <<hd, owed, rot, host, frames, highScores, heap, prompt>>

ZipKeyUp(key) ==
    /\ InputAllowed
    /\ state' = handleKeyUp(state, key)
    /\ op' = [name |-> "keyup", key |-> key]
    /\ hist' = <<state, state'>>
    /\ press' = NULL
    /\ returned' = NoReturn
    /\ calls' = [calls EXCEPT !.inputs = @ + 1]
    /\ UNCHANGED <<hd, owed, rot, host, frames, highScores, heap, prompt>>

ZipNext ==
    \/ \E deltaTime \in Deltas, r \in RndChoices : Tick(deltaTime, r)
    \/ \E key \in Keys : ZipKeyDown(key)
    \/ \E key \in Keys : ZipKeyUp(key)

ZipSpec == ZipInit /\ [][ZipNext]_vars

(***************************************************************************)
(* Compaction: the line piece about to lock into column 4 of a board whose *)
(* rows 0..3 are each either full but for that column or have one more     *)
(* hole, with two short rows above them; every choice of the full rows.    *)
(***************************************************************************)
GapBoard(full) ==
    [i \in Cols |-> [j \in Rows |->
        IF i = 4 THEN 0
        ELSE IF j \in full THEN (IF i % 2 = 0 THEN 3 ELSE 5)
        ELSE IF j < 4 THEN (IF i = j THEN 0 ELSE j + 1)
        ELSE IF j = 4 /\ i < 2 THEN 7
        ELSE IF j = 5 /\ i = 1 THEN 6
        ELSE 0]]

CompactSessions ==
    {Session(GapBoard(full), 3, {3}, TRUE, SLOW_MOVE_TICKS - 1) :
        full \in (SUBSET (0..3)) \ {{}}}

CompactInit ==
    /\ \E sess \in CompactSessions :
       \E level \in sess.levels :
            state = SessionState(sess, level, sess.next)
    /\ op = NoOp
    /\ hist = <<state>>
    /\ hd = NULL
    /\ owed = NoOwed
    /\ returned = NoReturn
    /\ calls = NoCalls
    /\ rot = NoRot
    /\ Aside

CompactNext ==
    \/ \E deltaTime \in Deltas, r \in RndChoices : Tick(deltaTime, r)
    \/ GetEvents

CompactSpec == CompactInit /\ [][CompactNext]_vars

(***************************************************************************)
(* Overflow: the stack filled to row 16 but for column 9, rows 17..19 each *)
(* either full but for column 4 or open in column 9 as well, and the line  *)
(* piece over column 4, where it comes to rest on rows 17..20: in its      *)
(* grace, in freefall from the spawn height, or in the air for a hard drop.*)
(***************************************************************************)
TopBoard(full) ==
    [i \in Cols |-> [j \in Rows |->
        IF j < 17 THEN (IF i = 9 THEN 0 ELSE IF i = 4 THEN 2 ELSE 7)
        ELSE IF i = 4 THEN 0
        ELSE IF j \in full THEN (IF i % 2 = 0 THEN 3 ELSE 5)
        ELSE IF i = 9 THEN 0 ELSE 6]]

TopRows == {{}, {17}, {19}, {17, 18, 19}}

OverflowSessions ==
    {Session(TopBoard(full), 20, {3}, TRUE, SLOW_MOVE_TICKS - 1) :
        full \in TopRows}
    \cup {[Session(TopBoard(full), SPAWN_HEIGHT, {5}, FALSE, 1)
                EXCEPT !.freefall = TRUE, !.pending = 1] : full \in TopRows}
    \cup {Session(TopBoard(full), SPAWN_HEIGHT, {1}, FALSE, 2) :
                full \in TopRows}

OverflowInit ==
    /\ \E sess \in OverflowSessions :
       \E level \in sess.levels :
            state = SessionState(sess, level, sess.next)
    /\ op = NoOp
    /\ hist = <<state>>
    /\ hd = NULL
    /\ owed = NoOwed
    /\ returned = NoReturn
    /\ calls = NoCalls
    /\ rot = NoRot
    /\ Aside

OverflowNext ==
    \/ \E deltaTime \in Deltas, r \in RndChoices : Tick(deltaTime, r)
    \/ \E key \in Keys : KeyDown(key)
    \/ \E key \in Keys : KeyUp(key)

OverflowSpec == OverflowInit /\ [][OverflowNext]_vars

(***************************************************************************)
(* Spawning on the objects: sessions are started, the current piece is     *)
(* turned and moved, and the next piece is spawned, as a lock or a         *)
(* resolution does it.                                                     *)
(***************************************************************************)
MaxCopies == 4      \* copyPiece calls in one behaviour

HeapInit ==
    /\ state = makeInitialGameState
    /\ op = NoOp
    /\ hist = <<state>>
    /\ hd = NULL
    /\ owed = NoOwed
    /\ returned = NoReturn
    /\ calls = NoCalls
    /\ rot = NoRot
    /\ Aside

engine == <<state, op, hist, hd, owed, returned, calls, rot,
            host, frames, highScores, press, prompt>>

HeapStart(r1, r2) ==
    /\ heap.allocated + 2 <= MaxCopies
    /\ heap' = [collect(startAt(heap, r1, r2)) EXCEPT
                    !.shown = r1, !.drawn = r2, !.turned = heap.turned,
                    !.op = "start"]
    /\ UNCHANGED engine

HeapSpawn(r) ==
    /\ heap.current # 0
    /\ heap.allocated + 1 <= MaxCopies
    /\ heap' = [collect(startNextPieceAt(heap, r)) EXCEPT
                    !.shown = heap.pieces[heap.next].color,
                    !.drawn = r, !.op = "spawn"]
    /\ UNCHANGED engine

HeapRotate(clockwise) ==
    /\ heap.current # 0
    /\ heap' = [rotateAt(heap, clockwise) EXCEPT
                    !.turned = @ \cup {heap.pieces[heap.current].color},
                    !.op = "rotate"]
    /\ UNCHANGED engine

HeapMove(dOffset, dHeight) ==
    /\ heap.current # 0
    /\ heap.pieces[heap.current].offset + dOffset
            \in {SPAWN_OFFSET, SPAWN_OFFSET + 1}
    /\ heap.pieces[heap.current].height + dHeight
            \in {SPAWN_HEIGHT - 1, SPAWN_HEIGHT}
    /\ heap' = [moveAt(heap, dOffset, dHeight) EXCEPT !.op = "move"]
    /\ UNCHANGED engine

HeapNext ==
    \/ \E r1 \in RndChoices, r2 \in RndChoices : HeapStart(r1, r2)
    \/ \E r \in RndChoices : HeapSpawn(r)
    \/ \E clockwise \in BOOLEAN : HeapRotate(clockwise)
    \/ \E m \in {<<1, 0>>, <<-1, 0>>, <<0, -1>>} : HeapMove(m[1], m[2])

HeapSpec == HeapInit /\ [][HeapNext]_vars

(***************************************************************************)
(* Keys held across a lock: the line piece on the floor of an empty board  *)
(* or a row above it, with the left key down (just pressed, or long enough *)
(* to repeat), the push key down or the hard-drop key down; the lock fills *)
(* no row.                                                                 *)
(***************************************************************************)
OnFloor(since) ==
    SessionState(Session(EmptyBoard, 3, {9}, TRUE, since), 9, 0)

OverFloor ==
    SessionState(Session(EmptyBoard, 3 + 1, {9}, FALSE, 1), 9, 0)

HeldSessions ==
    {handleKeyDown(OnFloor(SLOW_MOVE_TICKS - 2), "j"),
     tick(handleKeyDown(OnFloor(2), "j"),
          (ZIP_DELAY_TICKS + 1) * TICK_MS, 0),
     handleKeyDown(OverFloor, "m"),
     handleKeyDown(OverFloor, " ")}

HeldInit ==
    /\ state \in HeldSessions
    /\ op = NoOp
    /\ hist = <<state>>
    /\ hd = IF state.isHardDropping
            THEN [rows |-> DropDistance(state, 0),
                  pending |-> state.pendingDropScore,
                  height |-> state.currentPiece.height]
            ELSE NULL
    /\ owed = NoOwed
    /\ returned = NoReturn
    /\ calls = NoCalls
    /\ rot = NoRot
    /\ Aside

HeldNext ==
    \/ \E deltaTime \in Deltas, r \in RndChoices : Tick(deltaTime, r)
    \/ \E key \in Keys : KeyDown(key)
    \/ \E key \in Keys : KeyUp(key)
    \/ GetEvents

HeldSpec == HeldInit /\ [][HeldNext]_vars

(***************************************************************************)
(* From spawn to lock: the sessions with keys held, the line piece in the  *)
(* well with grace left, the T piece in the air along the right wall, and  *)
(* two rows flashing; ticks and one more key event.                        *)
(***************************************************************************)
LockSessions ==
    HeldSessions
        \cup {InWell, InAir(6, 1, 6), tick(AboutToLock, TICK_MS, 0)}

LockInit ==
    /\ state \in LockSessions
    /\ op = NoOp
    /\ hist = <<state>>
    /\ hd = IF state.isHardDropping
            THEN [rows |-> DropDistance(state, 0),
                  pending |-> state.pendingDropScore,
                  height |-> state.currentPiece.height]
            ELSE NULL
    /\ owed = NoOwed
    /\ returned = NoReturn
    /\ calls = NoCalls
    /\ rot = NoRot
    /\ Aside

LockNext ==
    \/ \E deltaTime \in Deltas, r \in RndChoices : Tick(deltaTime, r)
    \/ \E key \in Keys : KeyDown(key)
    \/ \E key \in Keys : KeyUp(key)
    \/ GetEvents

LockSpec == LockInit /\ [][LockNext]_vars

(***************************************************************************)
(* Turning and shifting at will: a piece of each colour in the air on an  *)
(* empty board; the rotation and direction keys pressed and released any   *)
(* number of times between two ticks.                                      *)
(***************************************************************************)
TurnKeys == {"i", "k", "j", "l"}

TurnInit ==
    /\ \E color \in 0..(PIECE_COUNT - 1) : state = InAir(color, 0, 3)
    /\ op = NoOp
    /\ hist = <<state>>
    /\ hd = NULL
    /\ owed = NoOwed
    /\ returned = NoReturn
    /\ calls = NoCalls
    /\ rot = NoRot
    /\ Aside

Press(key) ==
    /\ state' = handleKeyDown(state, key)
    /\ op' = [name |-> "keydown", key |-> key]
    /\ hist' = <<state, state'>>
    /\ returned' = NoReturn
    /\ UNCHANGED <<hd, owed, calls, rot, outside>>

Release(key) ==
    /\ state' = handleKeyUp(state, key)
    /\ op' = [name |-> "keyup", key |-> key]
    /\ hist' = <<state, state'>>
    /\ returned' = NoReturn
    /\ UNCHANGED <<hd, owed, calls, rot, outside>>

TurnNext ==
    \/ \E key \in TurnKeys : Press(key)
    \/ \E key \in TurnKeys : Release(key)

TurnSpec == TurnInit /\ [][TurnNext]_vars

(***************************************************************************)
(* Levels and lines: sessions started at level 1, 5 or 10 that have cleared *)
(* so many lines, the line piece about to lock into a well of one or four  *)
(* rows; ticks, a new start and the event reads.                           *)
(***************************************************************************)
\* The level of a session started at `level` after n rows cleared one at a
\* time, by the test finishRowClearing makes at each resolution.
RECURSIVE LevelFrom(_, _, _)
LevelFrom(level, cleared, n) ==
    IF cleared = n THEN level
    ELSE IF cleared + 1 >= LEVEL_THRESHOLD[level] /\ level < 10
         THEN LevelFrom(level + 1, cleared + 1, n)
         ELSE LevelFrom(level, cleared + 1, n)

LevelAfter(level, n) == LevelFrom(level, 0, n)

PlayedLevels == {1, 5, 10}
PlayedLines == {7, 9, 47, 49, 89, 99}
PlayedWells == {1, 4}

Played(level, n, k) ==
    [SessionState(Session(WellBoard(k, FALSE, FALSE, FALSE), 3, {level},
                          TRUE, SLOW_MOVE_TICKS - 1),
                  LevelAfter(level, n), 0)
        EXCEPT !.linesCleared = n,
               !.currentScore = SCORE_1_LINE * n,
               !.startLevel = level]

LevelInit ==
    /\ \E level \in PlayedLevels, n \in PlayedLines, k \in PlayedWells :
            state = Played(level, n, k)
    /\ op = NoOp
    /\ hist = <<state>>
    /\ hd = NULL
    /\ owed = NoOwed
    /\ returned = NoReturn
    /\ calls = NoCalls
    /\ rot = NoRot
    /\ Aside

LevelNext ==
    \/ \E level \in StartLevels, r1 \in RndChoices, r2 \in RndChoices :
            Start(level, r1, r2)
    \/ \E deltaTime \in Deltas, r \in RndChoices : Tick(deltaTime, r)
    \/ GetEvents

LevelSpec == LevelInit /\ [][LevelNext]_vars

(***************************************************************************)
(* Cells, pieces and lines: sessions started at level 1 whose board and     *)
(* line count a number of locked pieces accounts for (every lock adds 4    *)
(* cells, every line takes 10), the line piece resting in column 4 or in   *)
(* the air above it; ticks, key events, a new start and the event reads.   *)
(***************************************************************************)
CellCount(board) ==
    Cardinality({p \in Cols \X Rows : board[p[1]][p[2]] # 0})

TallyLines == {8, 9}

\* At rest in its grace, or two rows up and falling.
AtRest == [height |-> 3, slow |-> TRUE, since |-> SLOW_MOVE_TICKS - 1]
Falls == [height |-> 3 + 2, slow |-> FALSE, since |-> 1]

TallySessions ==
    {<<GapBoard({0, 1, 3}), AtRest>>,
     <<WellBoard(2, FALSE, FALSE, FALSE), Falls>>}

Tallied(board, n, at) ==
    [SessionState(Session(board, at.height, {1}, at.slow, at.since),
                  LevelAfter(1, n), 0)
        EXCEPT !.linesCleared = n,
               !.currentScore = SCORE_1_LINE * n,
               !.placed = (CellCount(board) + 10 * n) \div 4]

TallyInit ==
    /\ \E sess \in TallySessions, n \in TallyLines :
            /\ (CellCount(sess[1]) + 10 * n) % 4 = 0
            /\ state = Tallied(sess[1], n, sess[2])
    /\ op = NoOp
    /\ hist = <<state>>
    /\ hd = NULL
    /\ owed = NoOwed
    /\ returned = NoReturn
    /\ calls = NoCalls
    /\ rot = NoRot
    /\ Aside

TallyNext ==
    \/ \E level \in StartLevels, r1 \in RndChoices, r2 \in RndChoices :
            Start(level, r1, r2)
    \/ \E deltaTime \in Deltas, r \in RndChoices : Tick(deltaTime, r)
    \/ \E key \in Keys : KeyDown(key)
    \/ \E key \in Keys : KeyUp(key)
    \/ GetEvents

TallySpec == TallyInit /\ [][TallyNext]_vars

(***************************************************************************)
(* Gravity at every level: the T piece in the air on an empty board, so    *)
(* many ticks after its last descent attempt, and a session just started   *)
(* at level 10; frames and one key event.                                  *)
(***************************************************************************)
\* Ticks since the last attempt that the sessions start with: every sixth
\* value below the level's interval, and two short of it.
SinceChoices(level) ==
    {k \in 0..(LEVEL_SPEED[level] - 1) : k % 6 = 0}
        \cup {LEVEL_SPEED[level] - 2}

Falling(level, since, height) ==
    [InAir(6, 0, 3) EXCEPT
        !.currentLevel = level,
        !.linesCleared = LinesAt(level),
        !.currentScore = SCORE_1_LINE * LinesAt(level),
        !.currentPiece.height = height,
        !.lastDropTime = SessionTick - since]

GravityInit ==
    /\ \/ \E level \in Levels : \E since \in SinceChoices(level) :
            state = Falling(level, since, 10)
       \/ \E since \in {0, 3} : state = Falling(10, since, 11)
       \/ \E r1 \in RndChoices, r2 \in RndChoices :
            state = start(10, r1, r2)
    /\ op = NoOp
    /\ hist = <<state>>
    /\ hd = NULL
    /\ owed = NoOwed
    /\ returned = NoReturn
    /\ calls = NoCalls
    /\ rot = NoRot
    /\ Aside

GravityNext ==
    \/ \E deltaTime \in Deltas, r \in RndChoices : Tick(deltaTime, r)
    \/ \E key \in Keys : KeyDown(key)
    \/ \E key \in Keys : KeyUp(key)

GravitySpec == GravityInit /\ [][GravityNext]_vars

(***************************************************************************)
(* The host driving the engine: frames, the start and pause buttons and    *)
(* the high-score popup, on a wall clock that moves on between any two of  *)
(* them.                                                                   *)
(***************************************************************************)
MaxClock == 200     \* the wall clock stops here (four tick lengths)

\* Wall-clock time between one host event and the next.
HostTime == {TICK_MS \div 2, TICK_MS}

\* The time the engine has simulated or holds in its accumulator.
EngineClock(s) == s.count * TICK_MS + s.accumulator

\* The wall clock moves on by dt before the next handler runs.
Elapsed(h, dt) ==
    [h EXCEPT !.now = @ + dt,
              !.due = IF frameTicks(h) THEN @ + dt ELSE @,
              !.slept = IF h.isGameInProgress /\ h.isGamePaused
                        THEN @ + dt ELSE @]

\* The bookkeeping of a handler that took the host from h to g.
Tracked(h, g) ==
    IF ~h.isGamePaused /\ g.isGamePaused
    THEN [g EXCEPT !.atPause = [accumulator |-> state.accumulator,
                                count |-> state.count]]
    ELSE IF h.isGamePaused /\ ~g.isGamePaused
    THEN [g EXCEPT !.atPause = NULL, !.due = 0]
    ELSE g

\* A session in play when the exploration begins, a frame just drawn.
HostInPlay(s) ==
    [initialHost EXCEPT !.isGameInProgress = TRUE,
                        !.isShowingWelcomeScreen = FALSE,
                        !.base = EngineClock(s)]

HostInit ==
    /\ \/ state = makeInitialGameState /\ host = initialHost
       \/ state = AboutToEnd /\ host = HostInPlay(AboutToEnd)
    /\ op = NoOp
    /\ hist = <<state>>
    /\ hd = NULL
    /\ owed = NoOwed
    /\ returned = NoReturn
    /\ calls = NoCalls
    /\ rot = NoRot
    /\ frames = NoFrames
    /\ press = NULL
    /\ heap = NoHeap
    /\ prompt = NULL
    /\ highScores = NoTable

ClockAllows(dt) == host.now + dt <= MaxClock

HostOp(name, h, ticked) ==
    [name |-> name, key |-> "", paused |-> h.isGamePaused,
     running |-> frameTicks(h), ticked |-> ticked]

OnStart(dt, level, r1, r2) ==
    /\ ClockAllows(dt)
    /\ state' = start(level, r1, r2)
    /\ host' = [onStart(Elapsed(host, dt), host.now + dt)
                    EXCEPT !.due = 0, !.atPause = NULL, !.slept = 0,
                           !.base = 0, !.since = host.now + dt]
    /\ op' = HostOp("onStart", host, FALSE)
    /\ hist' = <<state'>>
    /\ calls' = [calls EXCEPT !.ticks = 0]
    /\ UNCHANGED <<hd, owed, returned, rot, frames, highScores, press, heap,
                   prompt>>

OnPause(dt) ==
    /\ ClockAllows(dt)
    /\ host' = Tracked(host, onPause(Elapsed(host, dt), host.now + dt))
    /\ op' = HostOp("onPause", host, FALSE)
    /\ hist' = <<state>>
    /\ UNCHANGED <<state, hd, owed, returned, calls, rot, frames,
                   highScores, press, heap, prompt>>

OnShowHighScores(dt) ==
    /\ ClockAllows(dt)
    /\ host' = Tracked(host, onShowHighScores(Elapsed(host, dt)))
    /\ highScores' = IF host.isShowingHighScores THEN highScores
                     ELSE [highScores EXCEPT !.lastHighScoreIndex = -1]
    /\ op' = HostOp("onShowHighScores", host, FALSE)
    /\ hist' = <<state>>
    /\ UNCHANGED <<state, hd, owed, returned, calls, rot, frames, press,
                   heap, prompt>>

\* The frame of a running session: h is the host at the frame's timestamp.
TickingFrame(h, r) ==
    /\ hist' = tickStates(state, frameDelta(h, h.now), r)
    /\ state' = hist'[Len(hist')]
    /\ host' = [frameDone(h, h.now, state'.isGameOver)
                    EXCEPT !.fed = frameDelta(h, h.now),
                           !.ran = h.due, !.due = 0]
    /\ calls' = [calls EXCEPT !.ticks = @ + Len(hist') - 1]
    /\ op' = HostOp("mainLoop", host, TRUE)

\* The frame of a session that is paused or not in progress: drawn only.
IdleFrame(h) ==
    /\ host' = h
    /\ hist' = <<state>>
    /\ op' = HostOp("mainLoop", host, FALSE)
    /\ UNCHANGED <<state, calls, press, heap>>

\* mainLoop(timestamp), dt after the previous host event.
MainLoop(dt, r) ==
    /\ ClockAllows(dt)
    /\ IF frameTicks(host)
       THEN TickingFrame(Elapsed(host, dt), r)
       ELSE IdleFrame(Elapsed(host, dt))
    /\ UNCHANGED <<hd, owed, returned, rot, frames, highScores, press, heap,
                   prompt>>

HostNext ==
    \/ \E dt \in HostTime, level \in StartLevels,
          r1 \in RndChoices, r2 \in RndChoices : OnStart(dt, level, r1, r2)
    \/ \E dt \in HostTime : OnPause(dt)
    \/ \E dt \in HostTime : OnShowHighScores(dt)
    \/ \E dt \in HostTime, r \in RndChoices : MainLoop(dt, r)

HostSpec == HostInit /\ [][HostNext]_vars

(***************************************************************************)
(* Keys and the pause: a session in play with a piece in the air, the      *)
(* pause key, frames, and the key events the host hands to the engine.     *)
(***************************************************************************)
PauseInit ==
    /\ state \in {AboveWell, InAir(6, 0, 3)}
    /\ host = HostInPlay(state)
    /\ op = NoOp
    /\ hist = <<state>>
    /\ hd = NULL
    /\ owed = NoOwed
    /\ returned = NoReturn
    /\ calls = NoCalls
    /\ rot = NoRot
    /\ frames = NoFrames
    /\ press = NULL
    /\ heap = NoHeap
    /\ prompt = NULL
    /\ highScores = NoTable

\* onKeyDown: (key) => game.handleKeyDown(key)
OnKeyDown(key) ==
    /\ calls.inputs < MaxInputs
    /\ state' = handleKeyDown(state, key)
    /\ op' = [HostOp("onKeyDown", host, FALSE) EXCEPT !.key = key]
    /\ hist' = <<state, state'>>
    /\ calls' = [calls EXCEPT !.inputs = @ + 1]
    /\ UNCHANGED <<hd, owed, returned, rot, outside>>

\* onKeyUp: (key) => game.handleKeyUp(key)
OnKeyUp(key) ==
    /\ calls.inputs < MaxInputs
    /\ state' = handleKeyUp(state, key)
    /\ op' = [HostOp("onKeyUp", host, FALSE) EXCEPT !.key = key]
    /\ hist' = <<state, state'>>
    /\ calls' = [calls EXCEPT !.inputs = @ + 1]
    /\ UNCHANGED <<hd, owed, returned, rot, outside>>

PauseNext ==
    \/ \E dt \in HostTime : OnPause(dt)
    \/ \E dt \in HostTime, r \in RndChoices : MainLoop(dt, r)
    \/ \E key \in Keys : OnKeyDown(key)
    \/ \E key \in Keys : OnKeyUp(key)

PauseSpec == PauseInit /\ [][PauseNext]_vars

(***************************************************************************)
(* The end of a game and the name prompt.  stopGame tests the score and    *)
(* sets a timer of one second; the timer opens the prompt, which disables  *)
(* the start button; the prompt's callback calls addHighScore.  `prompt`   *)
(* keeps how far this has come, with the score and lines the engine showed *)
(* when stopGame ran.  The timer is an action of its own: it fires at some *)
(* moment after stopGame.                                                  *)
(***************************************************************************)
\* Five entries above the score of the session that ends, five below it.
MixedTable ==
    [j \in 0..(HIGH_SCORE_COUNT - 1) |->
        [name |-> "Anonymous", score |-> IF j < 5 THEN 5000 ELSE 500,
         rows |-> j, date |-> 0]]

\* Every entry above it.
HighTable ==
    [j \in 0..(HIGH_SCORE_COUNT - 1) |->
        [name |-> "Anonymous", score |-> 5000, rows |-> j, date |-> 0]]

SubmitInit ==
    /\ state = AboutToEnd
    /\ host = HostInPlay(state)
    /\ op = NoOp
    /\ hist = <<state>>
    /\ hd = NULL
    /\ owed = NoOwed
    /\ returned = NoReturn
    /\ calls = NoCalls
    /\ rot = NoRot
    /\ frames = NoFrames
    /\ press = NULL
    /\ heap = NoHeap
    /\ prompt = NULL
    /\ \E table \in {DefaultTable, MixedTable, HighTable} :
            highScores = [NoTable EXCEPT !.table = table, !.stored = table]

\* mainLoop(timestamp) with stopGame's test of the score:
\* if (isHighScore(highScores, game.getScore())) setTimeout(..., 1000)
EndingFrame(dt, r) ==
    /\ ClockAllows(dt)
    /\ IF frameTicks(host)
       THEN TickingFrame(Elapsed(host, dt), r)
       ELSE IdleFrame(Elapsed(host, dt))
    /\ prompt' = IF /\ frameTicks(host)
                    /\ state'.isGameOver
                    /\ isHighScore(highScores.table, state'.currentScore)
                 THEN [stage |-> "scheduled",
                       score |-> state'.currentScore,
                       rows |-> state'.linesCleared]
                 ELSE prompt
    /\ UNCHANGED <<hd, owed, returned, rot, frames, highScores, press, heap>>

PromptStage == IF prompt = NULL THEN "none" ELSE prompt.stage

\* The start button, which the open prompt disables.
StartButton(dt, level, r1, r2) ==
    /\ PromptStage # "open"
    /\ OnStart(dt, level, r1, r2)

\* The timer of stopGame: promptPlayerName(...) opens the prompt.
TimerFires ==
    /\ PromptStage = "scheduled"
    /\ prompt' = [prompt EXCEPT !.stage = "open"]
    /\ op' = HostOp("timer", host, FALSE)
    /\ hist' = <<state>>
    /\ UNCHANGED <<state, host, hd, owed, returned, calls, rot, frames,
                   highScores, press, heap>>

\* The prompt's callback: lastHighScoreIndex = addHighScore(highScores,
\* {name, score: game.getScore(), rows: game.getLinesCleared()});
\* isShowingHighScores = true
SubmitName ==
    /\ PromptStage = "open"
    /\ LET newScore == [name |-> "Player", score |-> state.currentScore,
                        rows |-> state.linesCleared]
           added == addHighScore(highScores.table, newScore,
                                 highScores.n + 1)
       IN  highScores' =
                [table |-> added.table, stored |-> added.table,
                 lastHighScoreIndex |-> added.index,
                 entered |-> [score |-> newScore.score,
                              rows |-> newScore.rows,
                              index |-> added.index,
                              before |-> highScores.table,
                              entry |-> ReadEntry(added.table, added.index)],
                 n |-> highScores.n + 1]
    /\ host' = [host EXCEPT !.isShowingHighScores = TRUE]
    /\ prompt' = [prompt EXCEPT !.stage = "done"]
    /\ op' = HostOp("submit", host, FALSE)
    /\ hist' = <<state>>
    /\ UNCHANGED <<state, hd, owed, returned, calls, rot, frames, press,
                   heap>>

SubmitNext ==
    \/ \E dt \in HostTime, r \in RndChoices : EndingFrame(dt, r)
    \/ \E dt \in HostTime, level \in StartLevels,
          r1 \in RndChoices, r2 \in RndChoices : StartButton(dt, level, r1, r2)
    \/ TimerFires
    \/ SubmitName

SubmitSpec == SubmitInit /\ [][SubmitNext]_vars

(***************************************************************************)
(* Frames alone, of lengths that are not whole ticks.  Next to each        *)
(* tick() call the model keeps what one call would have done in place of   *)
(* this call and the one before it, when the random source gives both the  *)
(* same picks.                                                             *)
(***************************************************************************)
\* deltaTime of a frame at 150, at 60 and at about 43 frames per second.
FrameDeltas == {20, TICK_MS, 70}

\* tick(deltaTime) as in Tick, the call before it remembered.
Frame(deltaTime, r) ==
    /\ calls.ticks + ((state.accumulator + deltaTime) \div TICK_MS) <= MaxTicks
    /\ hist' = tickStates(state, deltaTime, r)
    /\ state' = hist'[Len(hist')]
    /\ op' = [name |-> "tick", key |-> ""]
    /\ owed' = [all |-> owed.all \o Pushed(hist', 1),
                last |-> Pushed(hist', 1),
                calls |-> IF NothingPending THEN 1 ELSE owed.calls + 1]
    /\ returned' = NoReturn
    /\ calls' = [calls EXCEPT !.ticks = @ + Len(hist') - 1]
    /\ frames' = IF frames.before # NULL /\ frames.r = r
                 THEN [before |-> state, delta |-> deltaTime, r |-> r,
                       first |-> frames.before,
                       merged |-> tick(frames.before,
                                       frames.delta + deltaTime, r)]
                 ELSE [before |-> state, delta |-> deltaTime, r |-> r,
                       first |-> NULL, merged |-> NULL]
    /\ UNCHANGED <<hd, rot, host, highScores, press, heap, prompt>>

FrameNext == \E deltaTime \in FrameDeltas, r \in RndChoices : Frame(deltaTime, r)

FrameInit ==
    /\ \/ state = makeInitialGameState
       \/ state = AboutToLock
       \/ \E sess \in FallingSessions :
          \E level \in sess.levels :
            state = SessionState(sess, level, sess.next)
    /\ op = NoOp
    /\ hist = <<state>>
    /\ hd = NULL
    /\ owed = NoOwed
    /\ returned = NoReturn
    /\ calls = NoCalls
    /\ rot = NoRot
    /\ Aside

FrameSpec == FrameInit /\ [][FrameNext]_vars

(***************************************************************************)
(* The engine as constructed, driven by frames and keys with start() never *)
(* called.                                                                 *)
(***************************************************************************)
IdleInit ==
    /\ state = makeInitialGameState
    /\ op = NoOp
    /\ hist = <<state>>
    /\ hd = NULL
    /\ owed = NoOwed
    /\ returned = NoReturn
    /\ calls = NoCalls
    /\ rot = NoRot
    /\ Aside

IdleNext ==
    \/ \E deltaTime \in Deltas, r \in RndChoices : Tick(deltaTime, r)
    \/ \E key \in Keys : KeyDown(key)
    \/ \E key \in Keys : KeyUp(key)

IdleSpec == IdleInit /\ [][IdleNext]_vars

(***************************************************************************)
(* The high-score table on its own: sessions end with some score and the   *)
(* host enters it as stopGame does, isHighScore first and addHighScore     *)
(* when it qualifies.  The table starts as any list of ten entries in      *)
(* descending order of score; the entries carry their first position as    *)
(* their row count, so that each can be told from the others.              *)
(***************************************************************************)
MaxScoreValue == 3   \* scores entered and stored are 0..MaxScoreValue
MaxEntries == 2      \* scores entered in one behaviour

\* cut[k] entries have a score of at least k.
ScoreCuts ==
    {cut \in [1..MaxScoreValue -> 0..HIGH_SCORE_COUNT] :
        \A k \in 1..(MaxScoreValue - 1) : cut[k] >= cut[k + 1]}

TableOf(cut) ==
    [i \in 0..(HIGH_SCORE_COUNT - 1) |->
        [name |-> "Anonymous",
         score |-> Cardinality({k \in 1..MaxScoreValue : cut[k] > i}),
         rows |-> i, date |-> 0]]

HighScoreInit ==
    /\ state = makeInitialGameState
    /\ op = NoOp
    /\ hist = <<state>>
    /\ hd = NULL
    /\ owed = NoOwed
    /\ returned = NoReturn
    /\ calls = NoCalls
    /\ rot = NoRot
    /\ host = initialHost
    /\ frames = NoFrames
    /\ press = NULL
    /\ heap = NoHeap
    /\ prompt = NULL
    /\ \E cut \in ScoreCuts :
            highScores = [NoTable EXCEPT !.table = TableOf(cut),
                                         !.stored = TableOf(cut)]

\* The table after the prompt's callback: addHighScore's array, saved, and
\* the index it returned.
Entered(hs, newScore, added) ==
    [table |-> added.table, stored |-> added.table,
     lastHighScoreIndex |-> added.index,
     entered |-> [score |-> newScore.score, qualifies |-> TRUE,
                  index |-> added.index, before |-> hs.table,
                  entry |-> added.table[added.index]],
     n |-> hs.n + 1]

\* The table when isHighScore said no: nothing is called.
Refused(hs, score) ==
    [hs EXCEPT !.entered = [score |-> score, qualifies |-> FALSE,
                            index |-> -1, before |-> hs.table,
                            entry |-> NULL],
               !.n = hs.n + 1]

EnterScore(score, rows) ==
    /\ highScores.n < MaxEntries
    /\ IF isHighScore(highScores.table, score)
       THEN /\ highScores' =
                  Entered(highScores,
                          [name |-> "Player", score |-> score, rows |-> rows],
                          addHighScore(highScores.table,
                                       [name |-> "Player", score |-> score,
                                        rows |-> rows],
                                       highScores.n + 1))
            /\ host' = [stopGame(host) EXCEPT !.isShowingHighScores = TRUE]
       ELSE /\ highScores' = Refused(highScores, score)
            /\ host' = stopGame(host)
    /\ op' = [name |-> "enterScore", key |-> ""]
    /\ UNCHANGED <<state, hist, hd, owed, returned, calls, rot, frames,
                   press, heap, prompt>>

HighScoreNext ==
    \E score \in 0..MaxScoreValue :
        EnterScore(score, HIGH_SCORE_COUNT + highScores.n)

HighScoreSpec == HighScoreInit /\ [][HighScoreNext]_vars

(***************************************************************************)
(* The rotations on their own: a grid rotated up to four times the same    *)
(* way.  The labelled grid holds a different value in every cell, so what  *)
(* a rotation does to it shows where every cell of any grid goes.          *)
(***************************************************************************)
LabelGrid == [i \in 0..3 |-> [j \in 0..3 |-> 4 * i + j + 1]]

OneCellGrid(a) ==
    [i \in 0..3 |-> [j \in 0..3 |-> IF <<i, j>> = a THEN 1 ELSE 0]]

RotGrids ==
    {TemplateGrid(c) : c \in 0..(PIECE_COUNT - 1)}
    \cup {LabelGrid}
    \cup {OneCellGrid(a) : a \in (0..3) \X (0..3)}

RotDirs == {"cw", "ccw", "legacyCcw"}

Rotate(dir, color, grid) ==
    CASE dir = "cw" -> rotateCw(color, grid)
      [] dir = "ccw" -> rotateCCw(color, grid)
      [] OTHER -> LegacyRotateCCw(color, grid)

RotInit ==
    /\ state = makeInitialGameState
    /\ op = NoOp
    /\ hist = <<state>>
    /\ hd = NULL
    /\ owed = NoOwed
    /\ returned = NoReturn
    /\ calls = NoCalls
    /\ Aside
    /\ \E color \in 0..(PIECE_COUNT - 1), g \in RotGrids, dir \in RotDirs :
            rot = [color |-> color, orig |-> g, grid |-> g, n |-> 0,
                   dir |-> dir]

RotStep ==
    /\ rot.n < 4
    /\ rot' = [rot EXCEPT !.grid = Rotate(rot.dir, rot.color, rot.grid),
                          !.n = @ + 1]
    /\ UNCHANGED <<state, op, hist, hd, owed, returned, calls, outside>>

RotSpec == RotInit /\ [][RotStep]_vars

(***************************************************************************)
(* Properties.  A tick() call leaves in `hist` the states its loop went    *)
(* through; step i of the call leads from hist[i] to hist[i + 1].          *)
(***************************************************************************)
TickSteps == IF op.name = "tick" THEN 1..(Len(hist) - 1) ELSE {}

\* Step i completes a row-clear resolution.
Resolves(i) ==
    /\ Len(hist[i].rowsToClear) > 0
    /\ Len(hist[i + 1].rowsToClear) = 0

\* Step i locks the current piece; step i spawns a piece.
Locks(i) == hist[i + 1].placed = hist[i].placed + 1
Spawns(i) == hist[i + 1].spawned = hist[i].spawned + 1

Gain(i) == hist[i + 1].currentScore - hist[i].currentScore

RowsResolved(i) == Len(hist[i].rowsToClear)

LineTable == <<100, 300, 600, 1000>>

\* One of the rows step i resolves holds one colour in all ten cells.
MonoCleared(i) ==
    \E n \in 1..Len(hist[i].rowsToClear) :
        \A c \in 0..9 :
            hist[i].board[c][hist[i].rowsToClear[n]]
                = hist[i].board[0][hist[i].rowsToClear[n]]

\* Every cell of the board is empty after step i.
EmptyAfter(i) ==
    \A c \in 0..9 : \A r \in 0..19 : hist[i + 1].board[c][r] = 0

\* The cells of a piece as board positions <<column, row>>.
CellsOf(piece) ==
    {<<a[1] + piece.offset, piece.height - a[2]>> :
        a \in {b \in (0..3) \X (0..3) : piece.grid[b[1]][b[2]] # 0}}

\* The piece lies within the side walls and above the floor, on empty
\* cells of the board.
Fits(board, piece) ==
    \A p \in CellsOf(piece) :
        /\ p[1] \in 0..9
        /\ p[2] >= 0
        /\ p[2] <= 19 => board[p[1]][p[2]] = 0

Shifted(piece, dx) == [piece EXCEPT !.offset = @ + dx]
Lowered(piece) == [piece EXCEPT !.height = @ - 1]

\* The value the piece has in the board cell <<c, r>>.
PieceCell(piece, c, r) == piece.grid[c - piece.offset][piece.height - r]

\* The board with the cells of the piece written into it.
BoardWith(board, piece) ==
    [c \in 0..9 |-> [r \in 0..19 |->
        IF <<c, r>> \in CellsOf(piece) THEN PieceCell(piece, c, r)
        ELSE board[c][r]]]

\* Step i runs the piece logic of a session in play.
Plays(i) ==
    /\ hist[i].currentPiece # NULL
    /\ ~hist[i].isGameOver
    /\ Len(hist[i].rowsToClear) = 0
    /\ ~hist[i].isHardDropping

\* Ticks since the last descent attempt, as step i sees them.
SinceDrop(i) == hist[i + 1].count - hist[i].lastDropTime

\* Step i takes the piece one row down.
Descends(i) ==
    /\ ~Locks(i)
    /\ hist[i + 1].currentPiece.height = hist[i].currentPiece.height - 1

\* Step i locks the piece of hist[i], moved by at most one column, where
\* it fits and cannot go down.
LocksWhereItRests(i) ==
    /\ Locks(i)
    /\ \E dx \in {-1, 0, 1} :
            /\ Fits(hist[i].board, Shifted(hist[i].currentPiece, dx))
            /\ ~Fits(hist[i].board,
                     Lowered(Shifted(hist[i].currentPiece, dx)))
            /\ hist[i + 1].board =
                    BoardWith(hist[i].board,
                              Shifted(hist[i].currentPiece, dx))

\* Step i lands a hard drop.
HardDropLands(i) == hist[i].isHardDropping /\ Locks(i)

\* C3 as stated: a hard drop over N legal rows commits exactly N points at
\* lock, in every state in which the key is accepted.
C3_Original ==
    \A i \in TickSteps :
        HardDropLands(i) => Gain(i) = hd.rows

\* C3: a hard drop over N legal rows locks the piece N rows below where
\* the key found it and commits at lock N points plus the freefall points
\* that were pending when the key was accepted.
C3_HardDropScore ==
    \A i \in TickSteps :
        HardDropLands(i) =>
            /\ hd # NULL
            /\ hist[i].currentPiece.height = hd.height - hd.rows
            /\ Gain(i) = hd.rows + hd.pending

\* A hard drop lands that was started with freefall points pending.
C3_Witness ==
    \E i \in TickSteps :
        /\ HardDropLands(i)
        /\ hd.rows >= 1 /\ hd.pending >= 1
        /\ Gain(i) = hd.rows + hd.pending

\* C4: in play and outside freefall and hard drop, (1) a piece under
\* normal gravity never locks: a descent attempt that leaves it where it
\* is starts the grace, counted from that tick; (2) a piece in its grace
\* is left alone for 14 ticks and at the 15th either goes down a row,
\* which ends the grace without a lock, or locks where it rests; (3) any
\* descent of a piece in its grace ends the grace.
C4_LockDelay ==
    \A i \in TickSteps :
        Plays(i) =>
            /\ (~hist[i].movePieceSlowly /\ ~hist[i].inFreefall) =>
                    /\ ~Locks(i)
                    /\ ( /\ hist[i + 1].lastDropTime = hist[i + 1].count
                         /\ hist[i + 1].currentPiece.height
                                = hist[i].currentPiece.height )
                            => hist[i + 1].movePieceSlowly
                    /\ hist[i + 1].movePieceSlowly =>
                            /\ hist[i + 1].lastDropTime = hist[i + 1].count
                            /\ ~Fits(hist[i + 1].board,
                                     Lowered(hist[i + 1].currentPiece))
            /\ (hist[i].movePieceSlowly /\ ~hist[i].inFreefall) =>
                    IF SinceDrop(i) < 15
                    THEN /\ ~Locks(i)
                         /\ hist[i + 1].movePieceSlowly
                         /\ hist[i + 1].currentPiece.height
                                = hist[i].currentPiece.height
                         /\ hist[i + 1].lastDropTime = hist[i].lastDropTime
                    ELSE /\ SinceDrop(i) = 15
                         /\ \/ Descends(i) /\ ~hist[i + 1].movePieceSlowly
                            \/ LocksWhereItRests(i)
            /\ (hist[i].movePieceSlowly /\ Descends(i))
                    => ~hist[i + 1].movePieceSlowly

\* A grace runs out and the piece locks where it rests.
C4_Witness ==
    \E i \in TickSteps :
        /\ Plays(i)
        /\ hist[i].movePieceSlowly /\ ~hist[i].inFreefall
        /\ SinceDrop(i) = 15
        /\ LocksWhereItRests(i)

\* Step i spawns a piece that does not fit.
SpawnsIllegal(i) ==
    Spawns(i) /\ ~Fits(hist[i + 1].board, hist[i + 1].currentPiece)

\* Step i locks a piece that has a cell at row 20 or above.
LocksAbove(i) ==
    Locks(i) /\ \E p \in CellsOf(hist[i].currentPiece) : p[2] >= 20

\* C5: the game-over flag is raised by a tick step exactly when the step
\* spawns a piece (at height 21, offset 3) that does not fit, or locks a
\* piece with a cell at row 20 or above, whose cells are then all within
\* the side walls; start() and the key handlers do not raise it.
C5_GameOver ==
    /\ op.name = "start" => ~state.isGameOver
    /\ op.name \in {"keydown", "keyup"}
            => hist[2].isGameOver = hist[1].isGameOver
    /\ \A i \in TickSteps :
            ~hist[i].isGameOver =>
                /\ hist[i + 1].isGameOver
                        <=> (SpawnsIllegal(i) \/ LocksAbove(i))
                /\ Spawns(i) =>
                        /\ hist[i + 1].currentPiece.height = 21
                        /\ hist[i + 1].currentPiece.offset = 3
                /\ LocksAbove(i) =>
                        /\ ~Spawns(i)
                        /\ \A p \in CellsOf(hist[i + 1].currentPiece) :
                                p[1] \in 0..9 /\ p[2] >= 0

\* The flag raised by a spawn into the stack, after a lock below row 20.
C5_Witness ==
    \E i \in TickSteps :
        /\ ~hist[i].isGameOver /\ hist[i + 1].isGameOver
        /\ SpawnsIllegal(i) /\ ~LocksAbove(i)

\* The flag raised by a lock that reaches above the board.
C5_WitnessLock ==
    \E i \in TickSteps :
        /\ ~hist[i].isGameOver /\ hist[i + 1].isGameOver
        /\ LocksAbove(i) /\ ~SpawnsIllegal(i)

C10_FourRotations == rot.n = 4 => rot.grid = rot.orig

\* The labelled grid rotated four times counter-clockwise as a line piece
\* and, on the way, differing from the original.
C10_Witness ==
    /\ rot.n = 4 /\ rot.orig = LabelGrid /\ rot.color = 1 /\ rot.dir = "ccw"
    /\ rot.grid = rot.orig
    /\ Rotate(rot.dir, rot.color, rot.orig) # rot.orig

\* C2: a resolution of k recorded rows adds 100, 300, 600, 1000 for
\* k = 1, 2, 3, 4 at every level: the score rises by exactly that when no
\* bonus applies, and otherwise by that plus the bonuses (2500, 10000 or
\* both).
C2_LineAward ==
    \A i \in TickSteps :
        Resolves(i) =>
            /\ RowsResolved(i) \in 1..4
            /\ Gain(i) - LineTable[RowsResolved(i)]
                    \in {0, 2500, 10000, 12500}
            /\ (~MonoCleared(i) /\ ~EmptyAfter(i))
                    => Gain(i) = LineTable[RowsResolved(i)]

\* Four rows resolved at level 10 without a bonus: 1000 points.
C2_Witness ==
    \E i \in TickSteps :
        /\ Resolves(i) /\ RowsResolved(i) = 4
        /\ hist[i].currentLevel = 10
        /\ ~MonoCleared(i) /\ ~EmptyAfter(i)
        /\ Gain(i) = 1000

\* C7: the level is raised only by a resolution, by one, and exactly when
\* the lines cleared reach the current level's threshold 10, 20, ..., 90
\* at a level below 10; the threshold of the new level is then still
\* ahead, and the level stays within 1..10.
C7_LevelUp ==
    /\ state.currentLevel \in 1..10
    /\ state.currentLevel < 10
            => state.linesCleared < 10 * state.currentLevel
    /\ \A i \in TickSteps :
            hist[i + 1].currentLevel =
                IF /\ Resolves(i)
                   /\ hist[i].currentLevel < 10
                   /\ hist[i].linesCleared < 10 * hist[i].currentLevel
                   /\ hist[i + 1].linesCleared >= 10 * hist[i].currentLevel
                THEN hist[i].currentLevel + 1
                ELSE hist[i].currentLevel

\* A resolution at level 9 takes the lines cleared across 90: level 10.
C7_Witness ==
    \E i \in TickSteps :
        /\ Resolves(i)
        /\ hist[i].currentLevel = 9 /\ hist[i].linesCleared < 90
        /\ hist[i + 1].linesCleared >= 90
        /\ hist[i + 1].currentLevel = 10

\* C8: a resolution with at least one monochrome row among its rows adds
\* 2500 once, however many of its rows are monochrome, and adds it on top
\* of the 10000 of an emptied board; a resolution without one adds none.
C8_SameColorBonus ==
    \A i \in TickSteps :
        Resolves(i) =>
            Gain(i) - LineTable[RowsResolved(i)] \in
                IF MonoCleared(i)
                THEN IF EmptyAfter(i) THEN {2500 + 10000} ELSE {2500}
                ELSE {0, 10000}

\* Four monochrome rows resolved, the board empty afterwards.
C8_Witness ==
    \E i \in TickSteps :
        /\ Resolves(i) /\ RowsResolved(i) = 4
        /\ MonoCleared(i) /\ EmptyAfter(i)
        /\ Gain(i) = 1000 + 2500 + 10000

\* C9: a resolution that leaves every cell of the board empty adds 10000;
\* one that leaves a cell occupied does not.
C9_ClearBoardBonus ==
    \A i \in TickSteps :
        Resolves(i) =>
            IF EmptyAfter(i)
            THEN Gain(i) - LineTable[RowsResolved(i)] \in {10000, 12500}
            ELSE Gain(i) - LineTable[RowsResolved(i)] \in {0, 2500}

\* Four mixed rows resolved, the board empty afterwards: 1000 + 10000.
C9_Witness ==
    \E i \in TickSteps :
        /\ Resolves(i) /\ RowsResolved(i) = 4
        /\ ~MonoCleared(i) /\ EmptyAfter(i)
        /\ Gain(i) = 1000 + 10000

\* The piece turned as the rotate key turns it.
Turned(piece, clockwise) ==
    [piece EXCEPT !.grid = IF clockwise THEN rotateCw(piece.color, @)
                           ELSE rotateCCw(piece.color, @)]

\* The engine takes piece-directed input in this state.
TakesInput(s) == ~s.isHardDropping /\ Len(s.rowsToClear) = 0

\* The last call was a rotate key on a piece that has no room to turn.
RotationRefused ==
    /\ op.name = "keydown" /\ op.key \in {"k", "i"}
    /\ TakesInput(hist[1])
    /\ hist[1].currentPiece # NULL
    /\ ~Fits(hist[1].board, Turned(hist[1].currentPiece, op.key = "i"))

\* C11: a rotate key, clockwise or counter-clockwise, on a piece whose
\* turned grid does not fit where the piece is leaves the piece (grid,
\* offset, height), the board and the score as they were, and with them
\* every other field of the engine state; no event is pushed.
C11_IllegalRotation ==
    RotationRefused =>
        /\ hist[2].currentPiece = hist[1].currentPiece
        /\ hist[2].board = hist[1].board
        /\ hist[2].currentScore = hist[1].currentScore
        /\ hist[2] = hist[1]

\* The line piece in the well refused a counter-clockwise turn that would
\* have changed its grid.
C11_Witness ==
    /\ RotationRefused /\ op.key = "k"
    /\ hist[1].currentPiece.color = 1
    /\ Turned(hist[1].currentPiece, FALSE).grid # hist[1].currentPiece.grid
    /\ hist[2] = hist[1]

\* C12: handleKeyDown, whatever the key, called while a hard drop is in
\* progress or while recorded rows wait to be removed leaves every field
\* of the engine state as it was.
C12_InputBlocked ==
    (op.name = "keydown" /\ ~TakesInput(hist[1])) => hist[2] = hist[1]

\* The push key pressed while two rows are flashing.
C12_Witness ==
    /\ op.name = "keydown" /\ op.key = "m"
    /\ Len(hist[1].rowsToClear) = 2 /\ ~hist[1].isHardDropping
    /\ hist[2] = hist[1]

\* No movement, hard-drop or row-clear flag is set in s.
FlagsClear(s) ==
    /\ ~s.zippingL /\ ~s.zippingR /\ ~s.zipNow
    /\ ~s.inFreefall /\ ~s.movePieceSlowly
    /\ ~s.downKeyActive /\ ~s.pushKeyActive
    /\ ~s.isHardDropping
    /\ s.rowsToClear = <<>> /\ s.clearAnimData = NULL

\* C15: start(level), level in 1..10, called in any state (in play, in a
\* hard drop, with rows flashing, after game over) leaves score 0, lines
\* 0, the level given, an empty board, the game-over flag clear, every
\* movement, hard-drop and row-clear flag clear, no pending drop points,
\* a current piece at height 21 and offset 3 and a next piece; the tick
\* counter and the accumulator are back at 0.
C15_StartResets ==
    op.name = "start" =>
        /\ state.currentScore = 0 /\ state.linesCleared = 0
        /\ state.currentLevel = op.level
        /\ \A c \in 0..9 : \A r \in 0..19 : state.board[c][r] = 0
        /\ ~state.isGameOver
        /\ FlagsClear(state)
        /\ state.pendingDropScore = 0
        /\ state.currentPiece # NULL
        /\ state.currentPiece.height = 21 /\ state.currentPiece.offset = 3
        /\ state.nextPiece # NULL
        /\ state.count = 0 /\ state.accumulator = 0

\* start(7) called after game over.
C15_Witness ==
    /\ op.name = "start" /\ op.level = 7 /\ op.over
    /\ state.currentLevel = 7 /\ ~state.isGameOver
    /\ state.currentScore = 0

\* C13: (1) a frame that finds the session paused does not call tick();
\* (2) while the session is paused the engine's accumulator and tick
\* counter stay what they were when it was paused; (3) the deltaTime a
\* frame hands to tick() is the wall-clock time the session has been
\* running since it was started, resumed or last ticked; (4) so the time
\* the engine has been given never exceeds the wall-clock time since the
\* start less the time spent paused.
C13_PausedClock ==
    /\ (op.name = "mainLoop" /\ op.paused) =>
            ~op.ticked /\ hist = <<state>>
    /\ host.isGamePaused =>
            /\ host.atPause # NULL
            /\ state.accumulator = host.atPause.accumulator
            /\ state.count = host.atPause.count
    /\ host.fed = host.ran
    /\ EngineClock(state) - host.base
            <= (host.now - host.since) - host.slept

\* A session resumed after a pause that took time, and the next frame
\* ticking: tick() is handed the time since the resume.
C13_Witness ==
    /\ op.name = "mainLoop" /\ op.ticked
    /\ host.slept > 0
    /\ host.fed > 0 /\ host.fed = host.ran
    /\ host.fed < (host.now - host.since)
    /\ state.count > 0

\* The engine state without the event list, which every tick() call
\* empties.
EngineView(s) == [s EXCEPT !.events = <<>>]

C16_NeutralBeforeStart ==
    /\ \A c \in 0..9 : \A r \in 0..19 : state.board[c][r] = 0
    /\ state.currentPiece = NULL /\ state.nextPiece = NULL
    /\ state.currentScore = 0 /\ state.linesCleared = 0
    /\ state.currentLevel = 1
    /\ state.rowsToClear = <<>> /\ getEvents(state) = <<>>
    /\ ~state.isGameOver

\* The hard-drop key before start(), then frames: the engine is in its
\* hard-drop mode with no piece to drop.
C16_Witness ==
    /\ op.name = "tick" /\ Len(hist) > 1
    /\ state.isHardDropping /\ state.downKeyActive
    /\ state.currentPiece = NULL /\ state.currentScore = 0
    /\ ~state.isGameOver

Descending(highScoreList) ==
    /\ DOMAIN highScoreList = 0..(HIGH_SCORE_COUNT - 1)
    /\ \A j \in DOMAIN highScoreList : highScoreList[j] # UNDEFINED
    /\ \A j \in 1..(HIGH_SCORE_COUNT - 1) :
            highScoreList[j - 1].score >= highScoreList[j].score

Progress(s) ==
    [board |-> s.board, score |-> s.currentScore, lines |-> s.linesCleared,
     level |-> s.currentLevel]

\* C18: once the game-over flag is set, no simulation tick changes the
\* board, the score, the lines cleared or the level, whether it is a later
\* step of the tick() call in which the game ended or a step of a later
\* call.
C18_Original ==
    op.name = "tick" =>
        \A i \in 1..(Len(hist) - 1) :
            hist[i].isGameOver => Progress(hist[i + 1]) = Progress(hist[i])

\* A piece is in play: there is one, the game is not over and no rows are
\* flashing.
PieceInPlay(s) ==
    /\ s.currentPiece # NULL
    /\ ~s.isGameOver
    /\ Len(s.rowsToClear) = 0

FilledCells(board) ==
    {p \in (0..9) \X (0..19) : board[p[1]][p[2]] # 0}

\* C19: whenever the game is not over and no rows are flashing, the
\* current piece is in a legal position after every simulation tick and
\* every key event: inside columns 0..9, at row 0 or above, and on no
\* occupied cell of the board.  So a lock in a game not over overwrites no
\* occupied cell: every cell filled before keeps its value, and a lock
\* that does not end the game fills four more.
C19_PieceLegal ==
    /\ \A i \in 1..Len(hist) :
            PieceInPlay(hist[i]) =>
                Fits(hist[i].board, hist[i].currentPiece)
    /\ op.name = "tick" =>
        \A i \in 1..(Len(hist) - 1) :
            (hist[i + 1].placed > hist[i].placed /\ ~hist[i].isGameOver) =>
                /\ \A p \in FilledCells(hist[i].board) :
                        hist[i + 1].board[p[1]][p[2]] =
                            hist[i].board[p[1]][p[2]]
                /\ Cardinality(FilledCells(hist[i + 1].board)) <=
                        Cardinality(FilledCells(hist[i].board)) + 4
                /\ ~hist[i + 1].isGameOver =>
                        Cardinality(FilledCells(hist[i + 1].board)) =
                            Cardinality(FilledCells(hist[i].board)) + 4

\* A piece that a key had moved locks onto a board with cells filled, and
\* the game goes on.
C19_Witness ==
    /\ op.name = "tick"
    /\ calls.inputs > 0
    /\ \E i \in 1..(Len(hist) - 1) :
            /\ hist[i + 1].placed > hist[i].placed
            /\ PieceInPlay(hist[i])
            /\ FilledCells(hist[i].board) # {}
            /\ ~hist[i + 1].isGameOver

\* Step i of a tick() call finds the piece in freefall and in play.
Freefalls(i) ==
    /\ PieceInPlay(hist[i])
    /\ hist[i].inFreefall
    /\ ~hist[i].isHardDropping

\* C20: while freefall is active a descent is attempted every 2 ticks at
\* any level, and the pending drop score goes up by 1 with each descent
\* that succeeds and with no other: a tick that takes the piece a row
\* down adds 1, a tick that finds it blocked adds nothing, and the lock
\* commits the points pending before it, one for each row fallen.
C20_Original ==
    op.name = "tick" =>
        \A i \in 1..(Len(hist) - 1) :
            Freefalls(i) =>
                /\ (SinceDrop(i) >= FREEFALL_RATE_TICKS) <=>
                        (hist[i + 1].lastDropTime = hist[i + 1].count)
                /\ Descends(i) =>
                        hist[i + 1].pendingDropScore =
                            hist[i].pendingDropScore + 1
                /\ Locks(i) =>
                        /\ hist[i + 1].pendingDropScore = 0
                        /\ Gain(i) = hist[i].pendingDropScore
                /\ (~Descends(i) /\ ~Locks(i)) =>
                        hist[i + 1].pendingDropScore =
                            hist[i].pendingDropScore

\* Step i runs animateActivePiece with the piece in freefall.
FreefallStep(i) ==
    /\ hist[i].currentPiece # NULL
    /\ Len(hist[i].rowsToClear) = 0
    /\ ~hist[i].isHardDropping
    /\ hist[i].inFreefall

\* C21: the score changes only on a tick that locks a piece or completes
\* a row-clear resolution, never on a key event.  Drop points stay in
\* pendingDropScore until the lock: before it the pending amount never
\* goes down; the lock adds all of it to the score (with the point of the
\* freefall attempt that found the piece blocked, counted in the same
\* tick) and leaves 0 pending; 0 is pending at every spawn.
C21_ScoreAtLock ==
    /\ op.name \in {"keydown", "keyup"} =>
            /\ hist[2].currentScore = hist[1].currentScore
            /\ hist[2].pendingDropScore = hist[1].pendingDropScore
    /\ op.name = "start" => state.pendingDropScore = 0
    /\ \A i \in TickSteps :
            /\ Gain(i) # 0 => Locks(i) \/ Resolves(i)
            /\ Locks(i) =>
                    /\ ~Resolves(i)
                    /\ hist[i + 1].pendingDropScore = 0
                    /\ Gain(i) = hist[i].pendingDropScore +
                                    (IF FreefallStep(i) THEN 1 ELSE 0)
            /\ ~Locks(i) =>
                    hist[i + 1].pendingDropScore >= hist[i].pendingDropScore
            /\ Spawns(i) => hist[i + 1].pendingDropScore = 0

\* A hard drop lands with points pending from a freefall before it: all
\* of them go to the score.
C21_Witness ==
    /\ op.name = "tick"
    /\ \E i \in TickSteps :
            /\ Locks(i) /\ hist[i].isHardDropping
            /\ ~hist[i].isGameOver
            /\ hist[i].pendingDropScore > 1
            /\ Gain(i) = hist[i].pendingDropScore

\* Step i runs animateActivePiece on a piece.
Animates(i) ==
    /\ hist[i].currentPiece # NULL
    /\ Len(hist[i].rowsToClear) = 0
    /\ ~hist[i].isHardDropping

\* The key of `press` is held as step i begins; step i makes its
\* auto-repeat move, or attempts it against a wall.
HeldAt(i) ==
    IF press.key = "j" THEN hist[i].zippingL ELSE hist[i].zippingR

Repeats(i) ==
    IF press.key = "j"
    THEN hist[i + 1].lastLeftTime = hist[i + 1].count
    ELSE hist[i + 1].lastRightTime = hist[i + 1].count

\* Ticks from the press to step i.
SincePress(i) == hist[i + 1].count - press.at

\* C22: after a left or right key press moved the piece at tick P, with
\* the key held and no key event after it, no auto-repeat move is made on
\* ticks P+1..P+9 and one is attempted on every tick from P+10 on.
C22_Original ==
    (press # NULL /\ press.moved) =>
        \A i \in TickSteps :
            (Animates(i) /\ HeldAt(i)) =>
                /\ SincePress(i) \in 1..(ZIP_DELAY_TICKS - 1) => ~Repeats(i)
                /\ SincePress(i) >= ZIP_DELAY_TICKS => Repeats(i)

\* C23: pressing the opposite direction key cancels the hold of the
\* direction held and starts the hold of the key pressed: after its first
\* step that key auto-repeats only once 10 ticks have passed since its
\* last move, also when the cancelled direction was already repeating.
C23_Original ==
    (press # NULL /\ press.other) =>
        /\ op.name = "keydown" =>
                /\ state.zippingL = (press.key = "j")
                /\ state.zippingR = (press.key = "l")
        /\ \A i \in TickSteps :
                (Animates(i) /\ Repeats(i)) =>
                    /\ HeldAt(i)
                    /\ SincePress(i) >= ZIP_DELAY_TICKS
                    /\ ~(IF press.key = "j" THEN hist[i].zippingR
                                            ELSE hist[i].zippingL)

\* Step i runs processHardDrop on a piece.
HardDrops(i) ==
    /\ hist[i].currentPiece # NULL
    /\ Len(hist[i].rowsToClear) = 0
    /\ hist[i].isHardDropping

\* C24: from the tick after the hard-drop key is accepted, every tick
\* takes the piece exactly one row down, its offset and orientation as
\* they were, and counts a point for the row; the first tick whose row
\* would be illegal locks the piece at the row it is on, where it was
\* legal, ends the hard drop and commits the points pending, none for
\* the illegal row.
C24_HardDropRows ==
    /\ \A i \in TickSteps :
            HardDrops(i) =>
                IF Fits(hist[i].board, Lowered(hist[i].currentPiece))
                THEN /\ ~Locks(i)
                     /\ hist[i + 1].currentPiece =
                            Lowered(hist[i].currentPiece)
                     /\ hist[i + 1].isHardDropping
                     /\ hist[i + 1].pendingDropScore =
                            hist[i].pendingDropScore + 1
                     /\ Gain(i) = 0
                ELSE /\ Locks(i)
                     /\ hist[i + 1].board =
                            BoardWith(hist[i].board, hist[i].currentPiece)
                     /\ ~hist[i + 1].isHardDropping
                     /\ hist[i + 1].pendingDropScore = 0
                     /\ Gain(i) = hist[i].pendingDropScore
    /\ (op.name = "keydown" /\ state.isHardDropping
            /\ ~hist[1].isHardDropping) =>
                /\ state.hardDropStartTime = state.count
                /\ state.currentPiece = hist[1].currentPiece

\* A hard drop that has taken the piece two rows down or more lands.
C24_Witness ==
    /\ op.name = "tick" /\ hd # NULL
    /\ \E i \in TickSteps :
            /\ HardDrops(i) /\ Locks(i)
            /\ ~hist[i].isGameOver
            /\ hist[i].currentPiece.height <= hd.height - 2
            /\ Gain(i) >= 2

\* Step i makes a descent attempt: lastDropTime is set to the tick.
Attempts(i) ==
    /\ Animates(i)
    /\ hist[i + 1].lastDropTime = hist[i + 1].count

\* C25: a descent attempt that is illegal while the piece is in grace or
\* in freefall locks the piece in that same tick (where it rests, in a
\* game not over) and arms no grace: the attempt either takes the piece a row down or locks
\* it.  A piece in freefall never enters grace, and a resting piece in
\* freefall is locked by the attempt made 2 ticks after the last one.
C25_LockAtOnce ==
    \A i \in TickSteps :
        /\ (Attempts(i) /\ (hist[i].movePieceSlowly \/ hist[i].inFreefall)) =>
                /\ Descends(i) \/ Locks(i)
                /\ (Locks(i) /\ ~hist[i].isGameOver) => LocksWhereItRests(i)
                /\ ~hist[i + 1].movePieceSlowly
        /\ (Animates(i) /\ hist[i].inFreefall) =>
                /\ ~hist[i].movePieceSlowly => ~hist[i + 1].movePieceSlowly
                /\ Attempts(i) <=> SinceDrop(i) >= FREEFALL_RATE_TICKS

\* The freefall key on a piece that rests with grace left: it locks
\* before the grace has run out.
C25_Witness ==
    /\ op.name = "tick"
    /\ \E i \in TickSteps :
            /\ Locks(i) /\ Animates(i)
            /\ hist[i].inFreefall /\ hist[i].movePieceSlowly
            /\ ~hist[i].isGameOver
            /\ SinceDrop(i) < SLOW_MOVE_TICKS

\* Step i runs the piece under normal gravity.
NormalGravity(i) ==
    /\ Plays(i)
    /\ ~hist[i].movePieceSlowly
    /\ ~hist[i].inFreefall

\* The ticks between two descent attempts under normal gravity.
Interval(level, height) ==
    CASE level = 1 -> 30 [] level = 2 -> 20 [] level = 3 -> 15
      [] level = 4 -> 12 [] level = 5 -> 10 [] level = 6 -> 8
      [] level = 7 -> 7  [] level = 8 -> 6  [] level = 9 -> 5
      [] level = 10 -> IF height % 2 = 0 THEN 3 ELSE 4

\* C26: under normal gravity a descent is attempted exactly when
\* LEVEL_SPEED[level] ticks have passed since the last attempt (30, 20,
\* 15, 12, 10, 8, 7, 6, 5 at levels 1..9); at level 10 when 3 ticks have
\* passed with the piece at an even height and 4 at an odd one, so that a
\* piece left alone from its spawn at height 21 is taken down at ticks
\* 4, 7, 11 and 14 after the spawn.
C26_GravityInterval ==
    \A i \in TickSteps :
        NormalGravity(i) =>
            /\ SinceDrop(i) <=
                    Interval(hist[i].currentLevel,
                             hist[i].currentPiece.height)
            /\ Attempts(i) <=>
                    SinceDrop(i) =
                        Interval(hist[i].currentLevel,
                                 hist[i].currentPiece.height)
            /\ (hist[i].currentLevel = 10 /\ calls.inputs = 0
                    /\ hist[i].spawned = 1 /\ hist[i].count < SessionTick) =>
                        (Attempts(i) <=> hist[i + 1].count \in {4, 7, 11, 14})

\* The fourth descent of a piece left alone since the start at level 10.
C26_Witness ==
    /\ op.name = "tick" /\ calls.inputs = 0
    /\ \E i \in TickSteps :
            /\ NormalGravity(i) /\ Attempts(i) /\ Descends(i)
            /\ hist[i].currentLevel = 10 /\ hist[i].spawned = 1
            /\ hist[i + 1].count = 14
            /\ hist[i + 1].currentPiece.height = 17

\* Rows are flashing as step i begins; ticks since the lock as it ends.
Clearing(i) == Len(hist[i].rowsToClear) > 0
SinceLock(i) == hist[i + 1].count - hist[i].clearAnimStartTime

\* The state but for the tick clock and the event list.
Still(s) == [s EXCEPT !.count = 0, !.accumulator = 0, !.events = <<>>]

\* C27: a lock at tick T that fills a row starts the flash at T, and the
\* engine is in it for exactly 10 ticks: ticks T+1..T+9 change nothing
\* but the clock (board, score, lines, level, piece, flags and timers
\* all stay, so no gravity, zip or hard-drop step ran), and tick T+10
\* resolves: the rows are gone, the lines counted, the next piece
\* spawned.  A key event during the flash leaves board, score, lines,
\* level, piece and rows alone.
C27_ClearingTicks ==
    /\ \A i \in TickSteps :
            /\ (Locks(i) /\ Len(hist[i + 1].rowsToClear) > 0) =>
                    /\ hist[i + 1].clearAnimStartTime = hist[i + 1].count
                    /\ ~Spawns(i)
            /\ Clearing(i) =>
                    IF SinceLock(i) < CLEAR_ANIM_TICKS
                    THEN Still(hist[i + 1]) = Still(hist[i])
                    ELSE /\ SinceLock(i) = CLEAR_ANIM_TICKS
                         /\ Resolves(i)
                         /\ Spawns(i)
                         /\ ~Locks(i)
                         /\ hist[i + 1].linesCleared =
                                hist[i].linesCleared + Len(hist[i].rowsToClear)
                         /\ Gain(i) >= LineTable[Len(hist[i].rowsToClear)]
    /\ (op.name \in {"keydown", "keyup"} /\ Len(hist[1].rowsToClear) > 0) =>
            /\ Progress(hist[2]) = Progress(hist[1])
            /\ hist[2].currentPiece = hist[1].currentPiece
            /\ hist[2].rowsToClear = hist[1].rowsToClear
            /\ hist[2].clearAnimStartTime = hist[1].clearAnimStartTime

\* The tenth tick after a lock made in this session resolves the rows, in
\* a call that began with the flash still on.
C27_Witness ==
    /\ op.name = "tick" /\ Len(hist) = 3
    /\ Clearing(1) /\ SinceLock(1) = CLEAR_ANIM_TICKS - 1 /\ ~Resolves(1)
    /\ Clearing(2) /\ SinceLock(2) = CLEAR_ANIM_TICKS /\ Resolves(2)
    /\ hist[3].currentPiece.height = SPAWN_HEIGHT
    /\ hist[1].clearAnimStartTime > SessionTick + 1

\* The rows recorded for step i, as a set; a row of a board is full.
Recorded(i) == {hist[i].rowsToClear[n] : n \in 1..Len(hist[i].rowsToClear)}
RowIsFull(board, j) == \A c \in 0..9 : board[c][j] # 0

\* The row that has k rows not in `gone` below it and is not in `gone`.
KeptRow(gone, k) ==
    CHOOSE j \in 0..19 :
        /\ j \notin gone
        /\ Cardinality({m \in 0..19 : m < j /\ m \notin gone}) = k

\* The board without the rows in `gone`: the others in their order from
\* the bottom, empty rows on top.
Without(board, gone) ==
    [c \in 0..9 |-> [r \in 0..19 |->
        IF r < 20 - Cardinality(gone) THEN board[c][KeptRow(gone, r)]
        ELSE 0]]

\* C28: when the flash completes, the board is the board before with the
\* recorded rows removed, the other rows in their order from the bottom
\* moved down, and empty rows on top; the recorded rows are exactly the
\* full rows of the board; linesCleared goes up by their number.
C28_Compaction ==
    \A i \in TickSteps :
        Resolves(i) =>
            /\ hist[i + 1].board = Without(hist[i].board, Recorded(i))
            /\ Recorded(i) = {j \in 0..19 : RowIsFull(hist[i].board, j)}
            /\ Cardinality(Recorded(i)) = Len(hist[i].rowsToClear)
            /\ hist[i + 1].linesCleared =
                    hist[i].linesCleared + Len(hist[i].rowsToClear)

\* Rows 0 and 2 are removed from under rows that stay: row 1 comes down
\* to row 0 and row 3 to row 1.
C28_Witness ==
    /\ op.name = "tick"
    /\ \E i \in TickSteps :
            /\ Resolves(i)
            /\ Recorded(i) = {0, 2}
            /\ \A c \in 0..9 :
                    /\ hist[i + 1].board[c][0] = hist[i].board[c][1]
                    /\ hist[i + 1].board[c][1] = hist[i].board[c][3]
                    /\ hist[i + 1].board[c][2] = hist[i].board[c][4]
            /\ hist[i + 1].board[0][0] = 2 /\ hist[i + 1].board[0][1] = 4

\* The events step i pushes, and how many of them are `e`.
PushedBy(i) ==
    SubSeq(hist[i + 1].events, Len(hist[i].events) + 1,
           Len(hist[i + 1].events))
CountOf(i, e) == Cardinality({n \in 1..Len(PushedBy(i)) : PushedBy(i)[n] = e})

\* Step i takes the line count to the threshold of the level.
LevelDue(i) ==
    /\ hist[i].linesCleared + Len(hist[i].rowsToClear)
            >= LEVEL_THRESHOLD[hist[i].currentLevel]
    /\ hist[i].currentLevel < 10

\* C29: a resolution pushes at most one of bigBonus, smallBonus and
\* newLevel: bigBonus when the board is empty after it, else smallBonus
\* when a cleared row was of one colour, else newLevel when the level goes
\* up.  Both bonuses are added to the score and the level goes up whether
\* or not their event is pushed.
C29_OneEvent ==
    \A i \in TickSteps :
        Resolves(i) =>
            /\ Len(hist[i + 1].events) >= Len(hist[i].events)
            /\ SubSeq(hist[i + 1].events, 1, Len(hist[i].events))
                    = hist[i].events
            /\ CountOf(i, "bigBonus") + CountOf(i, "smallBonus")
                    + CountOf(i, "newLevel") <= 1
            /\ CountOf(i, "bigBonus") = 1 <=> EmptyAfter(i)
            /\ CountOf(i, "smallBonus") = 1 <=>
                    (~EmptyAfter(i) /\ MonoCleared(i))
            /\ CountOf(i, "newLevel") = 1 <=>
                    (~EmptyAfter(i) /\ ~MonoCleared(i) /\ LevelDue(i))
            /\ Gain(i) = LineTable[Len(hist[i].rowsToClear)]
                    + (IF EmptyAfter(i) THEN SCORE_CLEAR_BOARD_BONUS ELSE 0)
                    + (IF MonoCleared(i) THEN SCORE_SAME_COLOR_BONUS ELSE 0)
            /\ hist[i + 1].currentLevel =
                    hist[i].currentLevel + (IF LevelDue(i) THEN 1 ELSE 0)

\* A one-colour clear that empties the board and takes the level up: only
\* bigBonus is pushed, both bonuses are scored and the level is one more.
C29_Witness ==
    /\ op.name = "tick"
    /\ \E i \in TickSteps :
            /\ Resolves(i)
            /\ EmptyAfter(i) /\ MonoCleared(i) /\ LevelDue(i)
            /\ CountOf(i, "bigBonus") = 1
            /\ CountOf(i, "smallBonus") = 0 /\ CountOf(i, "newLevel") = 0
            /\ Gain(i) >= SCORE_CLEAR_BOARD_BONUS + SCORE_SAME_COLOR_BONUS
            /\ hist[i + 1].currentLevel = hist[i].currentLevel + 1

\* The events of a lock that is followed by row detection.
LockEvents == {"drop", "stick", "clear1", "clear2", "clear3", "clear4"}

\* C30: a lock of a piece with a cell at row 20 or above ends the session
\* without row detection: the cells of the piece below row 20 are written
\* to the board and nothing else changes on it, no row is recorded or
\* removed, the line count and the level stay, the score gets the pending
\* drop points only, and no drop, stick or clear event is pushed.
C30_Overflow ==
    \A i \in TickSteps :
        LocksAbove(i) =>
            /\ hist[i + 1].isGameOver
            /\ hist[i + 1].board
                    = BoardWith(hist[i].board, hist[i].currentPiece)
            /\ hist[i + 1].rowsToClear = <<>>
            /\ hist[i + 1].clearAnimData = hist[i].clearAnimData
            /\ hist[i + 1].linesCleared = hist[i].linesCleared
            /\ hist[i + 1].currentLevel = hist[i].currentLevel
            /\ Gain(i) - hist[i].pendingDropScore \in {0, 1}
            /\ \A e \in LockEvents : CountOf(i, e) = 0
            /\ ~Spawns(i)

\* The lock fills a row of the board, which stays on it, and ends the
\* session.
C30_Witness ==
    /\ op.name = "tick"
    /\ \E i \in TickSteps :
            /\ ~hist[i].isGameOver
            /\ LocksAbove(i)
            /\ hist[i + 1].isGameOver
            /\ \E j \in 0..19 :
                    /\ ~RowIsFull(hist[i].board, j)
                    /\ RowIsFull(hist[i + 1].board, j)
                    /\ RowIsFull(state.board, j)

\* The row arrays of the piece at address p.
RowsOf(h, p) == {h.grids[h.pieces[p].grid][i] : i \in 0..3}

\* C31: the piece a start() or a spawn makes current is the object that
\* was the next piece, of the colour shown, with the grid of the template
\* of its colour whatever was turned before, at height 21 and offset 3;
\* the next piece is a new object of the colour drawn, with the grid of
\* its template.  From start() on there are a current and a next piece,
\* two objects with grid arrays and row arrays of their own, none of them
\* an array of a template, and the templates are as they were written.
C31_SpawnedPiece ==
    /\ heap.op \in {"start", "spawn"} =>
            /\ heap.current # 0 /\ heap.next # 0
            /\ heap.pieces[heap.current].color = heap.shown
            /\ HeapGrid(heap, heap.current) = TemplateGrid(heap.shown)
            /\ heap.pieces[heap.current].height = 21
            /\ heap.pieces[heap.current].offset = 3
            /\ heap.next = PIECE_COUNT + heap.allocated
            /\ heap.pieces[heap.next].color = heap.drawn
            /\ HeapGrid(heap, heap.next) = TemplateGrid(heap.drawn)
    /\ heap.op # "init" =>
            /\ heap.current # 0 /\ heap.next # 0
            /\ heap.current # heap.next
            /\ {heap.current, heap.next} \cap (1..PIECE_COUNT) = {}
            /\ heap.pieces[heap.current].grid # heap.pieces[heap.next].grid
            /\ {heap.pieces[heap.current].grid, heap.pieces[heap.next].grid}
                    \cap (1..PIECE_COUNT) = {}
            /\ Cardinality(RowsOf(heap, heap.current)
                    \cup RowsOf(heap, heap.next)) = 8
            /\ (RowsOf(heap, heap.current) \cup RowsOf(heap, heap.next))
                    \cap TemplateRows = {}
            /\ HeapGrid(heap, heap.next)
                    = TemplateGrid(heap.pieces[heap.next].color)
    /\ \A c \in 0..(PIECE_COUNT - 1) :
            /\ HeapGrid(heap, TemplateAddr(c)) = TemplateGrid(c)
            /\ heap.pieces[TemplateAddr(c)].color = c

\* A piece of a colour is spawned after an earlier piece of that colour
\* was turned and moved, and was next while that piece was turned.
C31_Witness ==
    /\ heap.op = "spawn"
    /\ heap.shown \in heap.turned
    /\ heap.shown = 1
    /\ heap.allocated >= 3
    /\ HeapGrid(heap, heap.current) = TemplateGrid(1)

\* The movement flags of a state that are set.
FlagNames ==
    {"zippingL", "zippingR", "zipNow", "inFreefall", "movePieceSlowly",
     "isHardDropping", "downKeyActive", "pushKeyActive"}
FlagsSet(s) ==
    {f \in FlagNames :
        CASE f = "zippingL" -> s.zippingL
          [] f = "zippingR" -> s.zippingR
          [] f = "zipNow" -> s.zipNow
          [] f = "inFreefall" -> s.inFreefall
          [] f = "movePieceSlowly" -> s.movePieceSlowly
          [] f = "isHardDropping" -> s.isHardDropping
          [] f = "downKeyActive" -> s.downKeyActive
          [] OTHER -> s.pushKeyActive}

\* Step i locks a piece within the board, in a game not over, and the
\* lock fills no row.
LocksWithoutRow(i) ==
    /\ Locks(i) /\ ~LocksAbove(i)
    /\ ~hist[i].isGameOver
    /\ Len(hist[i + 1].rowsToClear) = 0

\* C32: a lock within the board that fills no row clears every movement
\* flag and spawns the next piece in the same tick.  A tick that finds no
\* flag set sets none but the grace of a piece that has landed, leaves
\* the offset and the grid of the piece alone and takes it down only by
\* the gravity of the level; a key-up event sets no flag.  So only a
\* key-down event brings a key held across the lock back into effect.
C32_FlagsReset ==
    /\ \A i \in TickSteps :
            /\ LocksWithoutRow(i) =>
                    /\ Spawns(i)
                    /\ FlagsSet(hist[i + 1]) = {}
                    /\ hist[i + 1].currentPiece.height = 21
                    /\ hist[i + 1].currentPiece.offset = 3
            /\ (FlagsSet(hist[i]) = {} /\ Plays(i)) =>
                    /\ FlagsSet(hist[i + 1]) \subseteq {"movePieceSlowly"}
                    /\ ~Locks(i)
                    /\ hist[i + 1].currentPiece.offset
                            = hist[i].currentPiece.offset
                    /\ hist[i + 1].currentPiece.grid
                            = hist[i].currentPiece.grid
                    /\ hist[i + 1].pendingDropScore = hist[i].pendingDropScore
                    /\ \/ hist[i + 1].currentPiece.height
                            = hist[i].currentPiece.height
                       \/ /\ Descends(i)
                          /\ SinceDrop(i) = Interval(hist[i].currentLevel,
                                            hist[i].currentPiece.height)
    /\ op.name = "keyup" => FlagsSet(hist[2]) \subseteq FlagsSet(hist[1])

\* A key was down at the lock and no key event has come since: the piece
\* spawned by the lock has gone down a row by gravity, in its column.
C32_Witness ==
    /\ op.name = "tick"
    /\ calls.inputs = 0
    /\ state.spawned = 1 /\ state.placed = 1
    /\ ~state.isGameOver
    /\ FlagsSet(state) = {}
    /\ state.currentPiece.height = 20
    /\ state.currentPiece.offset = 3

\* What the claim names of the engine state: the position and grid of
\* the current piece, the hard-drop flag and the freefall flag.
PieceAndFlags(s) ==
    [piece |-> s.currentPiece, isHardDropping |-> s.isHardDropping,
     inFreefall |-> s.inFreefall]

\* C33 as stated: a key-down or key-up event that arrives while the
\* session is paused leaves the offset, height and grid of the current
\* piece, the hard-drop flag and the freefall flag as they were.
C33_Original ==
    (op.name \in {"onKeyDown", "onKeyUp"} /\ op.paused) =>
        PieceAndFlags(hist[2]) = PieceAndFlags(hist[1])

\* C34 as stated: the entry the prompt's callback writes carries the score
\* and the lines the finished game ended with, and takes the place in the
\* table that score has in it.
C34_Original ==
    PromptStage = "done" =>
        /\ highScores.entered.score = prompt.score
        /\ highScores.entered.rows = prompt.rows
        /\ highScores.entered.index
                = findIndex(highScores.entered.before, prompt.score)
        /\ highScores.entered.index \in 0..(HIGH_SCORE_COUNT - 1)

\* The longest gravity interval, that of level 1.
LongestWait == LEVEL_SPEED[1]

\* Ticks since the last descent attempt, in state s.
Waited(s) == s.count - s.lastDropTime

\* A bound on the ticks the piece of s still has before it locks: a hard
\* drop takes a row per tick; otherwise every attempt comes within
\* LongestWait ticks of the last and takes a row, or arms the grace, or
\* locks.
Rank(s) ==
    IF s.isHardDropping THEN s.currentPiece.height + 4
    ELSE 2 * LongestWait * (s.currentPiece.height + 4)
            + (IF s.movePieceSlowly THEN 0 ELSE LongestWait)
            + (LongestWait - Waited(s))

\* C35: every tick on a piece in play locks it, ends the game, or takes
\* Rank strictly down and the height not up, Rank never below 0 and,
\* outside a hard drop, the last attempt less than the longest interval
\* ago: so a piece locks
\* within Rank ticks of any state it is in, at most
\* 2 * 30 * (21 + 4) + 60 from its spawn.  A key event leaves the height
\* and the gravity and grace timer as they were and never raises Rank;
\* a move or a rotation leaves the grace and freefall flags alone too.
\* Rows flashing end with a spawn at the 10th tick after the lock.
C35_LocksInBoundedTicks ==
    /\ \A i \in TickSteps :
            /\ PieceInPlay(hist[i]) =>
                    /\ ~hist[i].isHardDropping =>
                            Waited(hist[i]) < LongestWait
                    /\ Rank(hist[i]) >= 0
                    /\ \/ Locks(i)
                       \/ hist[i + 1].isGameOver
                       \/ /\ Rank(hist[i + 1]) < Rank(hist[i])
                          /\ hist[i + 1].currentPiece.height
                                <= hist[i].currentPiece.height
            /\ Clearing(i) =>
                    /\ SinceLock(i) <= CLEAR_ANIM_TICKS
                    /\ SinceLock(i) = CLEAR_ANIM_TICKS => Spawns(i)
    /\ (op.name \in {"keydown", "keyup"} /\ PieceInPlay(hist[1])) =>
            /\ hist[2].currentPiece.height = hist[1].currentPiece.height
            /\ hist[2].lastDropTime = hist[1].lastDropTime
            /\ Rank(hist[2]) <= Rank(hist[1])
            /\ op.key \in {"j", "l", "i", "k"} =>
                    /\ hist[2].movePieceSlowly = hist[1].movePieceSlowly
                    /\ hist[2].inFreefall = hist[1].inFreefall

\* A piece in its grace is moved a column by a key event, and locks when
\* the 15 ticks since the attempt that armed the grace are over.
C35_Witness ==
    /\ op.name = "tick"
    /\ calls.inputs = 1
    /\ \E i \in TickSteps :
            /\ Locks(i)
            /\ hist[i].movePieceSlowly
            /\ SinceDrop(i) = SLOW_MOVE_TICKS
            /\ hist[i].board = EmptyBoard
            /\ hist[i].currentPiece.offset = SPAWN_OFFSET

\* The board positions finishRowClearing assigns to for the rows recorded:
\* rows row..BOARD_ROWS - 2 take the row above, the top row is emptied.
finishTargets(rows) ==
    UNION {{<<c, j>> : c \in 0..(BOARD_COLS - 1),
                       j \in rows[n]..(BOARD_ROWS - 2)}
                \cup {<<c, BOARD_ROWS - 1>> : c \in 0..(BOARD_COLS - 1)}
           : n \in 1..Len(rows)}

CellValues == 0..PIECE_COUNT

\* C36: every position placePiece assigns to, and every position the
\* compaction of finishRowClearing assigns to, is a column in 0..9 and a
\* row in 0..19, game over or not; every cell of the board holds a value
\* in 0..7 in every state.
C36_WritesInBoard ==
    /\ \A i \in 1..Len(hist) :
            /\ hist[i].wrote \subseteq Cols \X Rows
            /\ \A c \in Cols, r \in Rows : hist[i].board[c][r] \in CellValues
    /\ \A i \in TickSteps :
            Resolves(i) =>
                /\ finishTargets(hist[i].rowsToClear) # {}
                /\ finishTargets(hist[i].rowsToClear) \subseteq Cols \X Rows

\* A lock of a piece that reaches above the board: the cells at row 20 and
\* above are not written, those below are.
C36_Witness ==
    /\ op.name = "tick"
    /\ \E i \in TickSteps :
            /\ Locks(i)
            /\ hist[i + 1].wrote # {}
            /\ Cardinality(hist[i + 1].wrote) < 4
            /\ \E p \in hist[i + 1].wrote : p[2] = BOARD_ROWS - 1

\* A grid turned a quarter clockwise about the centre of its rotation
\* window: the whole 4x4 grid for the line piece, columns 1..3 by rows
\* 0..2 of the grid for colours 2..6; the square does not turn.
QuarterTurn(color, grid) ==
    [i \in 0..3 |-> [j \in 0..3 |->
        IF color = 1 THEN grid[j][3 - i]
        ELSE IF color \in 2..6 /\ i \in 1..3 /\ j \in 0..2
             THEN grid[j + 1][3 - i]
        ELSE grid[i][j]]]

\* The template of a colour and its quarter turns.
Rotations(color) ==
    LET t0 == TemplateGrid(color)
        t1 == QuarterTurn(color, t0)
        t2 == QuarterTurn(color, t1)
    IN  {t0, t1, t2, QuarterTurn(color, t2)}

\* C37: in every state the grid of the current piece is the template of
\* its colour or a quarter turn of it; it has exactly 4 occupied cells,
\* each holding colour + 1, and for colours 2..6 they lie in columns 1..3
\* and rows 0..2 of the grid, column 0 and row 3 of the grid stay empty.
C37_GridIsRotation ==
    \A n \in 1..Len(hist) :
        hist[n].currentPiece # NULL =>
            LET piece == hist[n].currentPiece
            IN  /\ piece.color \in 0..(PIECE_COUNT - 1)
                /\ piece.grid \in Rotations(piece.color)
                /\ Cardinality(Occupied(piece)) = 4
                /\ \A a \in Occupied(piece) :
                        piece.grid[a[1]][a[2]] = piece.color + 1
                /\ piece.color \in 2..6 =>
                        \A a \in Occupied(piece) :
                            a[1] \in 1..3 /\ a[2] \in 0..2

\* A key press has turned the T piece, already half a turn from its
\* template, a quarter further.
C37_Witness ==
    /\ op.name = "keydown" /\ op.key = "i"
    /\ state.currentPiece.color = 6
    /\ hist[1].currentPiece.grid
            = QuarterTurn(6, QuarterTurn(6, TemplateGrid(6)))
    /\ state.currentPiece.grid
            = QuarterTurn(6, hist[1].currentPiece.grid)
    /\ state.currentPiece.grid # TemplateGrid(6)

Max(a, b) == IF a >= b THEN a ELSE b
Min(a, b) == IF a <= b THEN a ELSE b

\* The level the claim gives a session started at `level` with n lines.
LevelOf(level, n) == Max(level, Min(10, 1 + n \div 10))

\* C38: in every state the level is max(L, min(10, 1 + linesCleared \div 10))
\* for the level L the session was started at; no tick takes the level
\* down, and a session started at L does not rise above L while
\* linesCleared is below 10 * L.
C38_LevelFormula ==
    /\ \A n \in 1..Len(hist) :
            /\ hist[n].currentLevel
                    = LevelOf(hist[n].startLevel, hist[n].linesCleared)
            /\ hist[n].linesCleared < 10 * hist[n].startLevel =>
                    hist[n].currentLevel = hist[n].startLevel
    /\ \A i \in TickSteps :
            hist[i + 1].currentLevel >= hist[i].currentLevel

\* A session started at level 5 resolves rows that take its lines past a
\* multiple of ten below 50 and stays at level 5.
C38_Witness ==
    /\ op.name = "tick"
    /\ \E i \in TickSteps :
            /\ Resolves(i)
            /\ hist[i].startLevel = 5
            /\ hist[i].linesCleared < 10
            /\ hist[i + 1].linesCleared >= 10
            /\ hist[i + 1].currentLevel = 5

\* The full rows of a board; the rows recorded in state s, as a set.
FullRows(board) == {j \in Rows : RowIsFull(board, j)}
RecordedIn(s) == {s.rowsToClear[n] : n \in 1..Len(s.rowsToClear)}

\* C39: in every state of a game not over, if no rows are recorded no row
\* of the board is full; if rows are recorded they are exactly the full
\* rows of the board, each recorded once, 1 to 4 of them; and
\* clearAnimData is there exactly when rows are recorded.
C39_FullRowsRecorded ==
    \A n \in 1..Len(hist) :
        ~hist[n].isGameOver =>
            /\ Len(hist[n].rowsToClear) = 0 => FullRows(hist[n].board) = {}
            /\ Len(hist[n].rowsToClear) > 0 =>
                    /\ RecordedIn(hist[n]) = FullRows(hist[n].board)
                    /\ Cardinality(RecordedIn(hist[n]))
                            = Len(hist[n].rowsToClear)
                    /\ Len(hist[n].rowsToClear) \in 1..4
            /\ (hist[n].clearAnimData # NULL)
                    <=> (Len(hist[n].rowsToClear) > 0)

\* Two rows that are not neighbours are recorded while a row between them
\* is not full, and the resolution leaves no full row.
C39_Witness ==
    /\ op.name = "tick"
    /\ \E i \in TickSteps :
            /\ Resolves(i)
            /\ RecordedIn(hist[i]) = {0, 2}
            /\ FullRows(hist[i].board) = {0, 2}
            /\ hist[i].clearAnimData # NULL
            /\ hist[i + 1].clearAnimData = NULL
            /\ FullRows(hist[i + 1].board) = {}
            /\ ~hist[i + 1].isGameOver

\* C40: in every state of a game not over, the occupied cells of the board
\* number 4 for every piece locked since the start less 10 for every line
\* cleared; rows recorded and not yet removed are still on the board and
\* not yet in linesCleared.  Step by step: a lock adds 4 cells and no
\* line, a resolution of k rows takes 10 * k cells and adds k lines, and
\* no other tick and no key event changes either number.
C40_CellTally ==
    /\ \A n \in 1..Len(hist) :
            ~hist[n].isGameOver =>
                CellCount(hist[n].board)
                    = 4 * hist[n].placed - 10 * hist[n].linesCleared
    /\ \A i \in 1..(Len(hist) - 1) :
            ~hist[i + 1].isGameOver =>
                /\ CellCount(hist[i + 1].board) - CellCount(hist[i].board)
                        = 4 * (hist[i + 1].placed - hist[i].placed)
                            - 10 * (hist[i + 1].linesCleared
                                        - hist[i].linesCleared)
                /\ hist[i + 1].linesCleared - hist[i].linesCleared
                        = IF op.name = "tick" /\ Resolves(i)
                          THEN Len(hist[i].rowsToClear) ELSE 0

\* Three rows are resolved: 30 cells fewer, 3 lines more, and the tally
\* holds before and after with the same number of pieces.
C40_Witness ==
    /\ op.name = "tick"
    /\ \E i \in TickSteps :
            /\ Resolves(i)
            /\ Len(hist[i].rowsToClear) = 3
            /\ hist[i + 1].placed = hist[i].placed
            /\ CellCount(hist[i + 1].board) = CellCount(hist[i].board) - 30
            /\ CellCount(hist[i + 1].board) > 0
            /\ ~hist[i + 1].isGameOver

====
